---- MODULE Spec2Model ----
(***************************************************************************)
(* A model of sqliter's backend: the HTTP handlers (internal/api) over the *)
(* database access layer (internal/db) over one SQLite file.               *)
(*                                                                         *)
(* The database file holds two tables, the fixture of handlers_test.go     *)
(* (users, without its name column) and a table with a two-column unique   *)
(* index (slots):                                                          *)
(*   CREATE TABLE users (id INTEGER PRIMARY KEY, email UNIQUE NOT NULL,    *)
(*                       age INTEGER)                                      *)
(*   CREATE TABLE slots (id INTEGER PRIMARY KEY, room, hour,               *)
(*                       UNIQUE (room, hour))                              *)
(* One request is handled per step; the exchange (the request's inputs,    *)
(* the statements the handler sent to the engine, the response) is kept in *)
(* `http` until it is delivered.                                           *)
(***************************************************************************)
EXTENDS Integers, Sequences, FiniteSets, TLC

VARIABLES db, http

vars == <<db, http>>

----------------------------------------------------------------------------
(* Bounds of the model *)

\* rows a table holds at most (inserts into a full table are not taken)
MaxRows == 2
\* entries a data or where map of a request holds at most
MaxMapSize == 2

----------------------------------------------------------------------------
(* Values *)

\* SQL NULL, Go nil and JSON null; it sorts before every other value
NULL == 0

\* the values of columns and of requests
Values == {NULL, 1, 2}

\* rowids an INTEGER PRIMARY KEY takes
Ids == 1..MaxRows

Max(a, b) == IF a >= b THEN a ELSE b

Min(a, b) == IF a <= b THEN a ELSE b

Range(s) == {s[i] : i \in DOMAIN s}

\* the sequences that list every element of the set S once
RECURSIVE Perms(_)
Perms(S) ==
  IF S = {} THEN {<<>>}
  ELSE UNION {{<<x>> \o p : p \in Perms(S \ {x})} : x \in S}

\* the concatenation of the sequences of a sequence
RECURSIVE Flatten(_)
Flatten(ss) == IF ss = <<>> THEN <<>> ELSE Head(ss) \o Flatten(Tail(ss))

----------------------------------------------------------------------------
(* The database file: its catalog *)

TableNames == {"users", "slots"}

\* PRAGMA table_info: cid, name, type, notnull, dflt_value, pk
TableInfo ==
  [users |-> << [cid |-> 0, name |-> "id",    type |-> "INTEGER", notnull |-> 0, pk |-> 1],
                [cid |-> 1, name |-> "email", type |-> "TEXT",    notnull |-> 1, pk |-> 0],
                [cid |-> 2, name |-> "age",   type |-> "INTEGER", notnull |-> 0, pk |-> 0] >>,
   slots |-> << [cid |-> 0, name |-> "id",    type |-> "INTEGER", notnull |-> 0, pk |-> 1],
                [cid |-> 1, name |-> "room",  type |-> "",        notnull |-> 0, pk |-> 0],
                [cid |-> 2, name |-> "hour",  type |-> "",        notnull |-> 0, pk |-> 0] >>]

\* PRAGMA index_list / index_info: the indexes of each table
IndexList ==
  [users |-> << [name |-> "idx_users_age", unique |-> 0, cols |-> <<"age">>],
                [name |-> "sqlite_autoindex_users_1", unique |-> 1, cols |-> <<"email">>] >>,
   slots |-> << [name |-> "sqlite_autoindex_slots_1", unique |-> 1, cols |-> <<"room", "hour">>] >>]

ColumnNames(t) == {TableInfo[t][i].name : i \in DOMAIN TableInfo[t]}

NotNullColumns(t) == {TableInfo[t][i].name : i \in {j \in DOMAIN TableInfo[t] : TableInfo[t][j].notnull = 1}}

\* the rows a table can hold: id is the rowid, NOT NULL columns are not NULL
RowsOf(t) ==
  {r \in [ColumnNames(t) -> Values \cup Ids] :
     /\ r["id"] \in Ids
     /\ \A c \in ColumnNames(t) \ {"id"} : r[c] \in Values
     /\ \A c \in NotNullColumns(t) : r[c] # NULL}

\* two rows collide on a unique index: equal and not NULL in all its columns
Collide(r1, r2, cols) ==
  \A i \in DOMAIN cols : r1[cols[i]] # NULL /\ r1[cols[i]] = r2[cols[i]]

\* the unique constraints of table t that row r violates against the rows rs,
\* each as the columns the engine names in its message
Violated(t, r, rs) ==
  (IF \E o \in rs : o["id"] = r["id"] THEN {<<"id">>} ELSE {})
  \cup {IndexList[t][i].cols : i \in {j \in DOMAIN IndexList[t] :
          /\ IndexList[t][j].unique = 1
          /\ \E o \in rs : Collide(r, o, IndexList[t][j].cols)}}

\* the rows of a table in rowid order, the order of a table scan
RECURSIVE Scan(_)
Scan(rs) ==
  IF rs = {} THEN <<>>
  ELSE LET r == CHOOSE x \in rs : \A y \in rs : x["id"] <= y["id"]
       IN <<r>> \o Scan(rs \ {r})

----------------------------------------------------------------------------
(* Strings the code inspects are sequences of characters *)

Lower == <<"a", "b", "c", "d", "e", "f", "g", "h", "i", "j", "k", "l", "m">>
         \o <<"n", "o", "p", "q", "r", "s", "t", "u", "v", "w", "x", "y", "z">>

Upper == <<"A", "B", "C", "D", "E", "F", "G", "H", "I", "J", "K", "L", "M">>
         \o <<"N", "O", "P", "Q", "R", "S", "T", "U", "V", "W", "X", "Y", "Z">>

\* unicode.ToUpper on one character
UpperChar(c) ==
  IF \E i \in DOMAIN Lower : Lower[i] = c
  THEN Upper[CHOOSE i \in DOMAIN Lower : Lower[i] = c]
  ELSE c

\* strings.ToUpper
ToUpper(s) == [i \in DOMAIN s |-> UpperChar(s[i])]

\* strings.HasPrefix
HasPrefix(s, p) == Len(s) >= Len(p) /\ SubSeq(s, 1, Len(p)) = p

IsSpace(c) == c \in {" ", "\n", "\t"}

\* strings.TrimSpace
RECURSIVE TrimLeft(_)
TrimLeft(s) == IF s # <<>> /\ IsSpace(Head(s)) THEN TrimLeft(Tail(s)) ELSE s

RECURSIVE TrimRight(_)
TrimRight(s) ==
  IF s # <<>> /\ IsSpace(s[Len(s)]) THEN TrimRight(SubSeq(s, 1, Len(s) - 1)) ELSE s

TrimSpace(s) == TrimRight(TrimLeft(s))

Digits == <<"0", "1", "2", "3", "4", "5", "6", "7", "8", "9">>

IsDigit(c) == \E i \in DOMAIN Digits : Digits[i] = c

DigitVal(c) == (CHOOSE i \in DOMAIN Digits : Digits[i] = c) - 1

RECURSIVE DigitsVal(_)
DigitsVal(s) ==
  IF s = <<>> THEN 0 ELSE 10 * DigitsVal(SubSeq(s, 1, Len(s) - 1)) + DigitVal(s[Len(s)])

\* strconv.Atoi: an optional sign and at least one decimal digit
Atoi(s) ==
  LET signed == s # <<>> /\ Head(s) \in {"+", "-"}
      ds     == IF signed THEN Tail(s) ELSE s
  IN IF ds = <<>> \/ \E i \in DOMAIN ds : ~IsDigit(ds[i])
     THEN [ok |-> FALSE, val |-> 0]
     ELSE [ok |-> TRUE,
           val |-> IF signed /\ Head(s) = "-" THEN 0 - DigitsVal(ds) ELSE DigitsVal(ds)]

sAsc == <<"a", "s", "c">>

sDesc == <<"d", "e", "s", "c">>

\* an error is the sequence of the pieces of its message; nil is the empty one
Nil == <<>>

----------------------------------------------------------------------------
(* The engine: what SQLite answers to the statements the code sends *)

\* a where_clause fragment as the engine parses it: "" | col = val | col IS NULL
EmptyClause == [col |-> "", op |-> "", val |-> NULL]

\* a comparison that takes NULL for a value like any other
SqlEqNullAsValue(a, b) == a = b

\* SQL comparison: NULL equals nothing
SqlEq(a, b) == a # NULL /\ b # NULL /\ a = b

Satisfies(r, w) ==
  CASE w.op = ""        -> TRUE
    [] w.op = "="       -> SqlEq(r[w.col], w.val)
    [] w.op = "IS NULL" -> r[w.col] = NULL

\* the statements the code builds, by the identifiers spliced into the text
\* and the values bound to its placeholders: set holds the columns of an
\* INSERT's list or an UPDATE's SET with their bound values, cond the columns
\* of the "col = ?" conditions with theirs
Stmt(kind, table) ==
  [kind |-> kind, table |-> table, where |-> EmptyClause, order |-> <<>>,
   limit |-> 0, offset |-> 0, set |-> <<>>, cond |-> <<>>]

\* the column names a statement's text holds
StmtColumns(st) ==
  (IF st.where.op = "" THEN {} ELSE {st.where.col})
  \cup (IF st.order = <<>> THEN {} ELSE {st.order[1]})
  \cup DOMAIN st.set \cup DOMAIN st.cond

\* the engine's check of a statement's names
NameError(st) ==
  IF st.table \notin TableNames THEN <<"no such table: ", st.table>>
  ELSE LET bad == StmtColumns(st) \ ColumnNames(st.table)
       IN IF bad = {} THEN Nil
          ELSE <<"no such column: ", CHOOSE c \in bad : TRUE>>

Filtered(d, st) == {r \in d[st.table] : Satisfies(r, st.where)}

\* SELECT COUNT(*) FROM t [WHERE w]
EngineCount(d, st) ==
  IF NameError(st) # Nil THEN [err |-> NameError(st), n |-> 0]
  ELSE [err |-> Nil, n |-> Cardinality(Filtered(d, st))]

\* s is ordered by column col in direction dir
\* an ORDER BY that sorts ascending whatever the direction
OrderedAscending(s, col, dir) ==
  \A i, j \in DOMAIN s : i < j => s[i][col] <= s[j][col]

Ordered(s, col, dir) ==
  \A i, j \in DOMAIN s :
     i < j => IF dir = ToUpper(sAsc) THEN s[i][col] <= s[j][col]
                                    ELSE s[i][col] >= s[j][col]

\* LIMIT n OFFSET m: a negative limit is no limit, a negative offset is 0
Page(s, limit, offset) ==
  LET off == Max(offset, 0)
      n   == IF limit < 0 THEN Len(s) ELSE limit
  IN SubSeq(s, off + 1, Min(Len(s), off + n))

\* SELECT * FROM t [WHERE w] [ORDER BY col dir] LIMIT n OFFSET m: the row
\* sequences the engine may return (rows that tie come in any order)
EngineSelect(d, st) ==
  IF NameError(st) # Nil THEN {[err |-> NameError(st), rows |-> <<>>]}
  ELSE LET seqs == IF st.order = <<>> THEN {Scan(Filtered(d, st))}
                   ELSE {s \in Perms(Filtered(d, st)) :
                           Ordered(s, st.order[1], st.order[2])}
       IN {[err |-> Nil, rows |-> Page(s, st.limit, st.offset)] : s \in seqs}

\* PRAGMA table_info(t): no rows, and no error, for a table that is not there
EngineTableInfo(t) == IF t \in TableNames THEN TableInfo[t] ELSE <<>>

\* PRAGMA index_list(t)
EngineIndexList(t) == IF t \in TableNames THEN IndexList[t] ELSE <<>>

----------------------------------------------------------------------------
(* internal/db/sqlite.go: the database access layer.  Every operation      *)
(* returns its error, its value, and the statements it sent to the engine. *)

\* a schema that marks every column of every unique index
UniqueColumnsOfAnyWidth(tableName) ==
  UNION {Range(EngineIndexList(tableName)[i].cols) :
           i \in {j \in DOMAIN EngineIndexList(tableName) :
                    EngineIndexList(tableName)[j].unique = 1}}

\* getUniqueConstraints: the columns of the unique indexes of one column
UniqueColumns(tableName) ==
  LET il == EngineIndexList(tableName)
  IN {c \in UNION {Range(il[i].cols) : i \in DOMAIN il} :
        \E i \in DOMAIN il :
           il[i].unique = 1 /\ c \in Range(il[i].cols) /\ Len(il[i].cols) = 1}

\* the statements of GetTableSchema and getUniqueConstraints
SchemaStmts(tableName) ==
  LET il == EngineIndexList(tableName)
  IN <<Stmt("PRAGMA table_info", tableName), Stmt("PRAGMA index_list", tableName)>>
     \o Flatten([i \in DOMAIN il |->
           IF il[i].unique = 1
           THEN <<Stmt("PRAGMA index_info", il[i].name)>>
                \o [k \in DOMAIN il[i].cols |-> Stmt("COUNT pragma_index_info", il[i].name)]
           ELSE <<>>])

GetTableSchema(tableName) ==
  LET info == EngineTableInfo(tableName)
      uniq == UniqueColumns(tableName)
  IN [err     |-> Nil,
      columns |-> [i \in DOMAIN info |->
                     [cid |-> info[i].cid, name |-> info[i].name, type |-> info[i].type,
                      not_null |-> info[i].notnull = 1, primary_key |-> info[i].pk = 1,
                      unique |-> info[i].name \in uniq]],
      stmts   |-> SchemaStmts(tableName)]

\* the sort column is one of the columns of the schema (sqlite.go:233-239)
ColumnExists(columns, sortColumn) ==
  \E i \in DOMAIN columns : columns[i].name = sortColumn

\* the sort is applied when both parameters are given (sqlite.go:231)
SortRequested(sortColumn, sortDirection) == sortColumn # "" /\ sortDirection # <<>>

\* rows.Scan into interface{} values: a []byte becomes a string, nil stays nil
ScanValue(v) == IF v # NULL THEN v ELSE NULL

ScanRow(r) == [c \in DOMAIN r |-> ScanValue(r[c])]

NoData == [columns |-> <<>>, rows |-> <<>>, total |-> 0]

\* SELECT * FROM t [WHERE w] (sqlite.go:215-219)
BaseQuery(tableName, whereClause) ==
  [Stmt("SELECT *", tableName) EXCEPT !.where = whereClause]

\* a count of all rows of the table, whatever the where clause
CountQueryUnfiltered(tableName, whereClause) == Stmt("SELECT COUNT(*)", tableName)

\* SELECT COUNT(*) FROM t [WHERE w] (sqlite.go:216-220)
CountQuery(tableName, whereClause) ==
  [Stmt("SELECT COUNT(*)", tableName) EXCEPT !.where = whereClause]

\* GetTableData: the outcomes the engine's answers allow
GetTableData(d, tableName, limit, offset, sortColumn, sortDirection, whereClause) ==
  LET schema   == GetTableSchema(tableName)
      countSt  == CountQuery(tableName, whereClause)
      cnt      == EngineCount(d, countSt)
      sorted   == SortRequested(sortColumn, sortDirection)
      querySt  == [BaseQuery(tableName, whereClause) EXCEPT
                     !.order = IF sorted THEN <<sortColumn, ToUpper(sortDirection)>> ELSE <<>>,
                     !.limit = limit, !.offset = offset]
  IN IF cnt.err # Nil
     THEN {[err |-> <<"failed to get total row count: ">> \o cnt.err, data |-> NoData,
            stmts |-> schema.stmts \o <<countSt>>]}
     ELSE IF sorted /\ ~ColumnExists(schema.columns, sortColumn)
     THEN {[err |-> <<"invalid sort column: ", sortColumn>>, data |-> NoData,
            stmts |-> schema.stmts \o <<countSt>>]}
     ELSE {IF res.err # Nil
           THEN [err |-> <<"failed to query table data: ">> \o res.err, data |-> NoData,
                 stmts |-> schema.stmts \o <<countSt, querySt>>]
           ELSE [err |-> Nil,
                 data |-> [columns |-> schema.columns,
                           rows    |-> [i \in DOMAIN res.rows |-> ScanRow(res.rows[i])],
                           total   |-> cnt.n],
                 stmts |-> schema.stmts \o <<countSt, querySt>>]
           : res \in EngineSelect(d, querySt)}

----------------------------------------------------------------------------
(* The engine: what SQLite answers to INSERT, UPDATE and DELETE *)

\* the message of a violated constraint: "<what> constraint failed: t.c, t.d"
RECURSIVE Qualified(_, _)
Qualified(t, cols) ==
  IF cols = <<>> THEN <<>>
  ELSE <<t, ".", Head(cols)>>
       \o (IF Len(cols) > 1 THEN <<", ">> ELSE <<>>) \o Qualified(t, Tail(cols))

UniqueFailed(t, cols) == <<"UNIQUE constraint failed: ">> \o Qualified(t, cols)

NotNullFailed(t, col) == <<"NOT NULL constraint failed: ">> \o Qualified(t, <<col>>)

\* the rowid of a row inserted without one
NextId(rs) == IF rs = {} THEN 1 ELSE 1 + CHOOSE m \in {r["id"] : r \in rs} :
                                          \A r \in rs : r["id"] <= m

\* the row an INSERT of the columns of `set` makes: NULL where no value is given
NewRow(t, rs, set) ==
  LET given == [c \in ColumnNames(t) |-> IF c \in DOMAIN set THEN set[c] ELSE NULL]
  IN [given EXCEPT !["id"] = IF @ = NULL THEN NextId(rs) ELSE @]

\* the row an UPDATE of the columns of `set` makes of row r
SetRow(r, set) == [c \in DOMAIN r |-> IF c \in DOMAIN set THEN set[c] ELSE r[c]]

\* all conditions "col = ?" of a statement hold of row r
Matches(r, cond) == \A c \in DOMAIN cond : SqlEq(r[c], cond[c])

\* the constraint errors table t with rows rs gives when the rows `new` are
\* written to it
ConstraintErrors(t, new, rs) ==
  {NotNullFailed(t, c) : c \in {x \in NotNullColumns(t) : \E r \in new : r[x] = NULL}}
  \cup {<<"datatype mismatch">> : r \in {x \in new : x["id"] = NULL}}
  \cup UNION {{UniqueFailed(t, cols) : cols \in Violated(t, r, rs \cup (new \ {r}))} : r \in new}

\* INSERT INTO t (cols) VALUES (?...): the outcomes, each the error, the
\* database after the statement and the rows it changed
EngineInsert(d, st) ==
  IF st.table \notin TableNames
  THEN {[err |-> <<"no such table: ", st.table>>, db |-> d, changes |-> 0]}
  ELSE IF DOMAIN st.set \ ColumnNames(st.table) # {}
  THEN {[err |-> <<"table ", st.table, " has no column named ",
                   CHOOSE c \in DOMAIN st.set \ ColumnNames(st.table) : TRUE>>,
         db |-> d, changes |-> 0]}
  ELSE LET rs   == d[st.table]
           r    == NewRow(st.table, rs, st.set)
           errs == ConstraintErrors(st.table, {r}, rs)
       IN IF errs # {} THEN {[err |-> e, db |-> d, changes |-> 0] : e \in errs}
          ELSE {[err |-> Nil, db |-> [d EXCEPT ![st.table] = rs \cup {r}], changes |-> 1]}

\* UPDATE t SET col = ?... WHERE col = ? AND ...: a statement that fails
\* changes nothing
EngineUpdate(d, st) ==
  IF NameError(st) # Nil THEN {[err |-> NameError(st), db |-> d, changes |-> 0]}
  ELSE LET rs   == d[st.table]
           hit  == {r \in rs : Matches(r, st.cond)}
           new  == {SetRow(r, st.set) : r \in hit}
           errs == ConstraintErrors(st.table, new, rs \ hit)
                   \cup (IF Cardinality(new) < Cardinality(hit) /\ "id" \in DOMAIN st.set
                         THEN {UniqueFailed(st.table, <<"id">>)} ELSE {})
       IN IF errs # {} THEN {[err |-> e, db |-> d, changes |-> 0] : e \in errs}
          ELSE {[err |-> Nil, db |-> [d EXCEPT ![st.table] = (rs \ hit) \cup new],
                 changes |-> Cardinality(hit)]}

\* DELETE FROM t WHERE col = ? AND ...
EngineDelete(d, st) ==
  IF NameError(st) # Nil THEN {[err |-> NameError(st), db |-> d, changes |-> 0]}
  ELSE LET hit == {r \in d[st.table] : Matches(r, st.cond)}
       IN {[err |-> Nil, db |-> [d EXCEPT ![st.table] = @ \ hit],
            changes |-> Cardinality(hit)]}

----------------------------------------------------------------------------
(* internal/db/sqlite.go: the values the driver scans into interface{} and  *)
(* what the row loops make of them.  A value is its Go type and its content *)
(* as a sequence of numbers: the bytes of a []byte or of a string, the one  *)
(* number of an int64, nothing for nil.                                     *)

MaxBlobLen == 2

\* bytes: NUL, a letter, DEL, and two that are not ASCII
Bytes == {0, 65, 127, 128, 255}

ByteSeqs(n) == UNION {[1..k -> Bytes] : k \in 0..n}

DriverNil == [kind |-> "nil", val |-> <<>>]

\* what rows.Scan stores for a NULL, an INTEGER, a TEXT and a BLOB
DriverValues ==
  {DriverNil}
  \cup {[kind |-> "int64", val |-> <<n>>] : n \in {0, 1, 65}}
  \cup {[kind |-> "string", val |-> b] : b \in {<<>>, <<65>>, <<52, 49>>}}
  \cup {[kind |-> "[]byte", val |-> b] : b \in ByteSeqs(MaxBlobLen)}

\* string(v) of a []byte: a string of the same bytes
StringOf(v) == [kind |-> "string", val |-> v.val]

\* the row loop of GetTableData (sqlite.go:271-281)
ScanDataValue(v) ==
  IF v # DriverNil
  THEN IF v.kind = "[]byte" THEN StringOf(v) ELSE v
  ELSE DriverNil

\* the row loop of executeSelectQuery (sqlite.go:431-441)
ScanQueryValue(v) ==
  IF v # DriverNil
  THEN IF v.kind = "[]byte" THEN StringOf(v) ELSE v
  ELSE DriverNil

----------------------------------------------------------------------------
(* internal/db/sqlite.go: GetTables, over the catalog sqlite_master *)

\* the characters of the names of the catalog
Spelling ==
  [n \in {"users", "slots", "Zoo", "sqlite_sequence", "sqlitex", "sqlite3log", "SQLiteNotes", "idx_users_age", "sqlite_autoindex_users_1", "sqlite_autoindex_slots_1"} |->
     CASE n = "users" -> <<"u", "s", "e", "r", "s">>
       [] n = "slots" -> <<"s", "l", "o", "t", "s">>
       [] n = "Zoo" -> <<"Z", "o", "o">>
       [] n = "sqlite_sequence" -> <<"s", "q", "l", "i", "t", "e", "_", "s", "e", "q", "u", "e", "n", "c", "e">>
       [] n = "sqlitex" -> <<"s", "q", "l", "i", "t", "e", "x">>
       [] n = "sqlite3log" -> <<"s", "q", "l", "i", "t", "e", "3", "l", "o", "g">>
       [] n = "SQLiteNotes" -> <<"S", "Q", "L", "i", "t", "e", "N", "o", "t", "e", "s">>
       [] n = "idx_users_age" -> <<"i", "d", "x", "_", "u", "s", "e", "r", "s", "_", "a", "g", "e">>
       [] n = "sqlite_autoindex_users_1" -> <<"s", "q", "l", "i", "t", "e", "_", "a", "u", "t", "o", "i", "n", "d", "e", "x", "_", "u", "s", "e", "r", "s", "_", "1">>
       [] n = "sqlite_autoindex_slots_1" -> <<"s", "q", "l", "i", "t", "e", "_", "a", "u", "t", "o", "i", "n", "d", "e", "x", "_", "s", "l", "o", "t", "s", "_", "1">>]

\* the names a table of the database file can have: user tables, and the
\* engine's own sqlite_sequence
CatalogNames ==
  {"users", "slots", "Zoo", "sqlite_sequence", "sqlitex", "sqlite3log", "SQLiteNotes"}

\* sqlite_master: an entry of type table for each table, of type index for
\* each index of a table
Master(d) ==
  {[name |-> n, type |-> "table"] : n \in DOMAIN d}
  \cup UNION {{[name |-> IndexList[t][i].name, type |-> "index"] : i \in DOMAIN IndexList[t]}
                : t \in DOMAIN d \cap TableNames}

\* the engine's LIKE: % matches any characters, _ matches one character,
\* letters match whatever their case
RECURSIVE Like(_, _)
Like(s, pattern) ==
  IF pattern = <<>> THEN s = <<>>
  ELSE IF Head(pattern) = "%"
  THEN \E k \in 0..Len(s) : Like(SubSeq(s, k + 1, Len(s)), Tail(pattern))
  ELSE /\ s # <<>>
       /\ Head(pattern) = "_" \/ UpperChar(Head(s)) = UpperChar(Head(pattern))
       /\ Like(Tail(s), Tail(pattern))

\* the characters in the order of their codes
Ascii == Digits \o Upper \o <<"_">> \o Lower

Code(c) == CHOOSE i \in DOMAIN Ascii : Ascii[i] = c

\* ORDER BY name: the comparison of two names byte by byte
RECURSIVE NameLess(_, _)
NameLess(a, b) ==
  IF b = <<>> THEN FALSE
  ELSE IF a = <<>> THEN TRUE
  ELSE IF Head(a) # Head(b) THEN Code(Head(a)) < Code(Head(b))
  ELSE NameLess(Tail(a), Tail(b))

\* the entries of a set in ascending order of name
RECURSIVE OrderByName(_)
OrderByName(es) ==
  IF es = {} THEN <<>>
  ELSE LET e == CHOOSE x \in es :
                  \A y \in es \ {x} : NameLess(Spelling[x.name], Spelling[y.name])
       IN <<e>> \o OrderByName(es \ {e})

\* name NOT LIKE 'sqlite_%'
NotLikeInternal(name) ==
  ~Like(Spelling[name], <<"s", "q", "l", "i", "t", "e", "_", "%">>)

\* SELECT name, type FROM sqlite_master WHERE type='table' AND name NOT LIKE
\* 'sqlite_%' ORDER BY name
GetTables(d) ==
  [err    |-> Nil,
   tables |-> OrderByName({e \in Master(d) : e.type = "table" /\ NotLikeInternal(e.name)}),
   stmts  |-> <<Stmt("SELECT name, type", "sqlite_master")>>]

----------------------------------------------------------------------------
(* internal/db/sqlite.go: InsertRow, UpdateRow, DeleteRow *)

\* strings.Contains, for a piece of a message
Contains(s, piece) == \E i \in DOMAIN s : s[i] = piece

\* strings.Split: the parts of s between the occurrences of sep
RECURSIVE Split(_, _)
Split(s, sep) ==
  IF ~Contains(s, sep) THEN <<s>>
  ELSE LET i == CHOOSE k \in DOMAIN s : s[k] = sep /\ \A j \in 1..(k - 1) : s[j] # sep
       IN <<SubSeq(s, 1, i - 1)>> \o Split(SubSeq(s, i + 1, Len(s)), sep)

\* parseConstraintError: the message for the client of an engine error
parseConstraintError(err) ==
  IF Contains(err, "UNIQUE constraint failed: ")
  THEN LET parts == Split(err, "UNIQUE constraint failed: ")
       IN IF Len(parts) >= 2 /\ Len(Split(parts[2], ".")) >= 2
          THEN <<"The value for '">> \o Split(parts[2], ".")[2]
               \o <<"' already exists. This field must be unique.">>
          ELSE <<"A unique constraint was violated. This value already exists.">>
  ELSE IF Contains(err, "NOT NULL constraint failed: ")
  THEN LET parts == Split(err, "NOT NULL constraint failed: ")
       IN IF Len(parts) >= 2 /\ Len(Split(parts[2], ".")) >= 2
          THEN <<"The field '">> \o Split(parts[2], ".")[2]
               \o <<"' is required and cannot be empty.">>
          ELSE <<"A required field is missing.">>
  ELSE IF Contains(err, "FOREIGN KEY constraint failed")
  THEN <<"This operation violates a foreign key constraint. The referenced record may not exist.">>
  ELSE IF Contains(err, "CHECK constraint failed: ")
  THEN LET parts == Split(err, "CHECK constraint failed: ")
       IN IF Len(parts) >= 2
          THEN <<"The value violates a check constraint: ">> \o parts[2]
          ELSE <<"The value violates a check constraint.">>
  ELSE err

\* a check of a map that lets every map through
EmptyMapNever(m) == FALSE

\* len(m) == 0, for a map of a request
EmptyMap(m) == DOMAIN m = {}

\* the outcome of an operation that returned before any statement
Refused(d, msg) == [err |-> <<msg>>, db |-> d, stmts |-> <<>>]

\* db.Exec with its error dropped
ExecIgnoringError(st, results) ==
  {[err |-> Nil, db |-> res.db, stmts |-> <<st>>] : res \in results}

\* the outcomes of db.Exec of statement st and of the error handling after it
Exec(st, results) ==
  {[err |-> IF res.err # Nil THEN parseConstraintError(res.err) ELSE Nil,
    db |-> res.db, stmts |-> <<st>>] : res \in results}

\* INSERT INTO t (cols) VALUES (?...) with the values bound (sqlite.go:302-311)
InsertStmt(tableName, data) == [Stmt("INSERT", tableName) EXCEPT !.set = data]

\* a where map cut down to one of its conditions
OneCondition(where) ==
  IF DOMAIN where = {} THEN where
  ELSE LET c == CHOOSE x \in DOMAIN where : \A y \in DOMAIN where : x = y \/ x # "id"
       IN [k \in {c} |-> where[k]]

\* an UPDATE that keeps one condition of its where map
UpdateStmtOneCondition(tableName, data, where) ==
  [Stmt("UPDATE", tableName) EXCEPT !.set = data, !.cond = OneCondition(where)]

\* a DELETE that keeps one condition of its where map
DeleteStmtOneCondition(tableName, where) ==
  [Stmt("DELETE", tableName) EXCEPT !.cond = OneCondition(where)]

\* UPDATE t SET col = ?... WHERE col = ? AND ... (sqlite.go:332-346)
UpdateStmt(tableName, data, where) ==
  [Stmt("UPDATE", tableName) EXCEPT !.set = data, !.cond = where]

\* DELETE FROM t WHERE col = ? AND ... (sqlite.go:364-371)
DeleteStmt(tableName, where) == [Stmt("DELETE", tableName) EXCEPT !.cond = where]

InsertRow(d, tableName, data) ==
  IF EmptyMap(data) THEN {Refused(d, "no data provided")}
  ELSE Exec(InsertStmt(tableName, data), EngineInsert(d, InsertStmt(tableName, data)))

UpdateRow(d, tableName, data, where) ==
  IF EmptyMap(data) THEN {Refused(d, "no data provided")}
  ELSE IF EmptyMap(where) THEN {Refused(d, "no where clause provided")}
  ELSE LET st == UpdateStmt(tableName, data, where)
       IN Exec(st, EngineUpdate(d, st))

DeleteRow(d, tableName, where) ==
  IF EmptyMap(where) THEN {Refused(d, "no where clause provided")}
  ELSE LET st == DeleteStmt(tableName, where)
       IN Exec(st, EngineDelete(d, st))

----------------------------------------------------------------------------
(* internal/db/sqlite.go: ExecuteSQL.  A statement is its characters up to  *)
(* the end of its first keyword, then one piece for the rest of its text.  *)

kSELECT == <<"S", "E", "L", "E", "C", "T">>

kDELETE == <<"D", "E", "L", "E", "T", "E">>

\* the engine's tokenizer skips white space and "-- ..." comments
RECURSIVE SkipLead(_)
SkipLead(s) ==
  IF s = <<>> THEN s
  ELSE IF IsSpace(Head(s)) THEN SkipLead(Tail(s))
  ELSE IF HasPrefix(s, <<"-", "-">>)
  THEN IF Contains(s, "\n")
       THEN SkipLead(SubSeq(s, 1 + (CHOOSE k \in DOMAIN s : s[k] = "\n" /\ \A j \in 1..(k - 1) : s[j] # "\n"), Len(s)))
       ELSE <<>>
  ELSE s

RECURSIVE Word(_)
Word(s) == IF s = <<>> \/ IsSpace(Head(s)) THEN <<>> ELSE <<Head(s)>> \o Word(Tail(s))

\* the first keyword of a statement, as the engine reads it
FirstKeyword(sql) == ToUpper(Word(SkipLead(sql)))

\* the statement the engine runs: its first keyword and the rest of its text
Parsed(sql) ==
  LET body == SkipLead(sql)
      rest == TrimSpace(SubSeq(body, Len(Word(body)) + 1, Len(body)))
  IN IF FirstKeyword(sql) = kSELECT /\ rest = <<"* FROM users">> THEN "select"
     ELSE IF FirstKeyword(sql) = kDELETE /\ rest = <<"FROM users">> THEN "delete"
     ELSE "error"

SyntaxError == <<"near \"", "\": syntax error">>

\* db.Query(sql) and the reading of its rows
EngineQuery(d, sql) ==
  CASE Parsed(sql) = "select" ->
         [err |-> Nil, db |-> d,
          columns |-> [i \in DOMAIN TableInfo["users"] |-> TableInfo["users"][i].name],
          rows |-> Scan(d["users"])]
    [] Parsed(sql) = "delete" ->
         [err |-> Nil, db |-> [d EXCEPT !["users"] = {}], columns |-> <<>>, rows |-> <<>>]
    [] OTHER -> [err |-> SyntaxError, db |-> d, columns |-> <<>>, rows |-> <<>>]

\* one statement run by db.Exec: for a statement that writes no row the
\* driver reports the count of an earlier statement of the connection
ExecStatement(d, sql) ==
  CASE Parsed(sql) = "select" ->
         {[err |-> Nil, db |-> d, changes |-> n] : n \in 0..MaxRows}
    [] Parsed(sql) = "delete" ->
         {[err |-> Nil, db |-> [d EXCEPT !["users"] = {}],
           changes |-> Cardinality(d["users"])]}
    [] OTHER -> {[err |-> SyntaxError, db |-> d, changes |-> 0]}

\* the statements of a text: its parts between semicolons that are not blank
Statements(sql) ==
  LET parts == Split(sql, ";")
      RECURSIVE NonBlank(_)
      NonBlank(ps) == IF ps = <<>> THEN <<>>
                      ELSE (IF TrimSpace(Head(ps)) = <<>> THEN <<>> ELSE <<Head(ps)>>)
                           \o NonBlank(Tail(ps))
  IN NonBlank(parts)

\* the driver runs the statements of a text one after the other, each in its
\* own transaction, and stops at the first that fails
RECURSIVE RunStatements(_, _)
RunStatements(d, stmts) ==
  IF Len(stmts) = 1 THEN ExecStatement(d, stmts[1])
  ELSE UNION {IF res.err # Nil THEN {res} ELSE RunStatements(res.db, Tail(stmts))
                : res \in ExecStatement(d, stmts[1])}

\* db.Exec(sql) and result.RowsAffected()
EngineExec(d, sql) == RunStatements(d, Statements(sql))

NoResult == [columns |-> <<>>, rows |-> <<>>, rowCount |-> 0, rowsAffected |-> 0]

executeSelectQuery(d, sqlQuery) ==
  LET res == EngineQuery(d, sqlQuery)
  IN IF res.err # Nil
     THEN {[err |-> <<"failed to execute query: ">> \o res.err, db |-> res.db,
            result |-> NoResult, path |-> "query"]}
     ELSE {[err |-> Nil, db |-> res.db, path |-> "query",
            result |-> [columns |-> res.columns,
                        rows |-> [i \in DOMAIN res.rows |->
                                    [k \in DOMAIN res.columns |->
                                       ScanValue(res.rows[i][res.columns[k]])]],
                        rowCount |-> Len(res.rows), rowsAffected |-> 0]]}

executeNonSelectQuery(d, sqlQuery) ==
  {IF res.err # Nil
   THEN [err |-> parseConstraintError(res.err), db |-> res.db, result |-> NoResult,
         path |-> "exec"]
   ELSE [err |-> Nil, db |-> res.db, path |-> "exec",
         result |-> [columns |-> <<"rows_affected">>, rows |-> << <<res.changes>> >>,
                     rowCount |-> 1, rowsAffected |-> res.changes]]
   : res \in EngineExec(d, sqlQuery)}

\* the statement goes the query way (sqlite.go:395)
isSelect(sqlQuery) == HasPrefix(ToUpper(sqlQuery), kSELECT)

ExecuteSQL(d, sql) ==
  LET sqlQuery == TrimSpace(sql)
  IN IF sqlQuery = <<>>
     THEN {[err |-> <<"empty SQL query">>, db |-> d, result |-> NoResult, path |-> "none"]}
     ELSE IF isSelect(sqlQuery) THEN executeSelectQuery(d, sqlQuery)
     ELSE executeNonSelectQuery(d, sqlQuery)

----------------------------------------------------------------------------
(* internal/api/handlers.go: the request handlers.  An exchange is the     *)
(* request, the response (status, error or body), whether the handler      *)
(* called the database access layer and the statements that reached the    *)
(* engine.                                                                 *)

StatusOK == 200

StatusCreated == 201

StatusBadRequest == 400

StatusInternalServerError == 500

Exchange(op, req, status, error, dbCalled, stmts, body) ==
  [op |-> op, req |-> req, status |-> status, error |-> error,
   dbCalled |-> dbCalled, stmts |-> stmts, body |-> body]

NoBody == <<>>

\* c.JSON(http.StatusBadRequest, gin.H{"error": msg}) before any database call
BadRequest(op, req, msg) == Exchange(op, req, StatusBadRequest, msg, FALSE, <<>>, NoBody)

\* a parameter of the query string, or a member of a JSON body: given or
\* not, and its value
Absent == [set |-> FALSE, val |-> <<>>]

Given(v) == [set |-> TRUE, val |-> v]

\* c.DefaultQuery(key, def)
DefaultQuery(q, def) == IF q.set THEN q.val ELSE def

\* a map of a bound JSON body: nil when the body does not hold it
Bound(m) == IF m.set THEN m.val ELSE <<>>

\* a sort_direction check that lets every direction through
InvalidSortDirectionNever(sortDirection) == FALSE

\* the sort_direction check of the data endpoint (handlers.go:83)
InvalidSortDirection(sortDirection) ==
  sortDirection # <<>> /\ sortDirection # sAsc /\ sortDirection # sDesc

\* Handler.GetTableData
HandleGetTableData(req) ==
  LET limit  == Atoi(DefaultQuery(req.limit, <<"1", "0", "0">>))
      offset == Atoi(DefaultQuery(req.offset, <<"0">>))
  IN /\ UNCHANGED db
     /\ IF ~limit.ok
        THEN http' = BadRequest("data", req, <<"invalid limit parameter">>)
        ELSE IF ~offset.ok
        THEN http' = BadRequest("data", req, <<"invalid offset parameter">>)
        ELSE IF InvalidSortDirection(req.sortDirection)
        THEN http' = BadRequest("data", req,
                        <<"invalid sort_direction parameter, must be 'asc' or 'desc'">>)
        ELSE \E res \in GetTableData(db, req.table, limit.val, offset.val,
                                     req.sortColumn, req.sortDirection, req.where) :
               http' = IF res.err # Nil
                       THEN Exchange("data", req, StatusInternalServerError, res.err,
                                     TRUE, res.stmts, NoBody)
                       ELSE Exchange("data", req, StatusOK, Nil, TRUE, res.stmts, res.data)

\* Handler.GetTables
HandleGetTables ==
  LET res == GetTables(db)
  IN /\ UNCHANGED db
     /\ http' = IF res.err # Nil
                THEN Exchange("tables", [table |-> ""], StatusInternalServerError, res.err,
                              TRUE, res.stmts, NoBody)
                ELSE Exchange("tables", [table |-> ""], StatusOK, Nil, TRUE, res.stmts,
                              [tables |-> res.tables])

\* Handler.GetTableSchema
HandleGetTableSchema(req) ==
  LET res == GetTableSchema(req.table)
  IN /\ UNCHANGED db
     /\ http' = IF res.err # Nil
                THEN Exchange("schema", req, StatusInternalServerError, res.err,
                              TRUE, res.stmts, NoBody)
                ELSE Exchange("schema", req, StatusOK, Nil, TRUE, res.stmts,
                              [columns |-> res.columns])

\* the tables stay within the bounds of the model
WithinBounds(d) ==
  \A t \in TableNames :
     Cardinality(d[t]) <= MaxRows /\ \A r \in d[t] : r["id"] \in Ids

\* row handlers that answer 400 to an error of the operation
HandleRowsBadRequest(op, req, results, created, msg) ==
  IF req.malformed
  THEN UNCHANGED db /\ http' = BadRequest(op, req, <<"invalid character">>)
  ELSE \E res \in results :
         /\ WithinBounds(res.db)
         /\ db' = res.db
         /\ http' = IF res.err # Nil
                    THEN Exchange(op, req, StatusBadRequest, res.err,
                                  TRUE, res.stmts, NoBody)
                    ELSE Exchange(op, req, created, Nil, TRUE, res.stmts, <<msg>>)

\* the common part of the row handlers: bind the body, call the operation,
\* answer 500 with its error or `created` with a message
HandleRows(op, req, results, created, msg) ==
  IF req.malformed
  THEN UNCHANGED db /\ http' = BadRequest(op, req, <<"invalid character">>)
  ELSE \E res \in results :
         /\ WithinBounds(res.db)
         /\ db' = res.db
         /\ http' = IF res.err # Nil
                    THEN Exchange(op, req, StatusInternalServerError, res.err,
                                  TRUE, res.stmts, NoBody)
                    ELSE Exchange(op, req, created, Nil, TRUE, res.stmts, <<msg>>)

\* Handler.InsertRow
HandleInsertRow(req) ==
  HandleRows("insert", req, InsertRow(db, req.table, Bound(req.data)),
             StatusCreated, "row inserted successfully")

\* Handler.UpdateRow
HandleUpdateRow(req) ==
  HandleRows("update", req, UpdateRow(db, req.table, Bound(req.data), Bound(req.where)),
             StatusOK, "row updated successfully")

\* Handler.DeleteRow
HandleDeleteRow(req) ==
  HandleRows("delete", req, DeleteRow(db, req.table, Bound(req.where)),
             StatusOK, "row deleted successfully")

\* Handler.ExecuteSQL
HandleExecuteSQL(req) ==
  IF req.malformed
  THEN UNCHANGED db /\ http' = BadRequest("sql", req, <<"invalid character">>)
  ELSE IF TrimSpace(req.sql) = <<>>
  THEN UNCHANGED db /\ http' = BadRequest("sql", req, <<"SQL query cannot be empty">>)
  ELSE \E res \in ExecuteSQL(db, req.sql) :
         /\ db' = res.db
         /\ http' = IF res.err # Nil
                    THEN Exchange("sql", req, StatusBadRequest, res.err, TRUE,
                                  <<res.path>>, NoBody)
                    ELSE Exchange("sql", req, StatusOK, Nil, TRUE, <<res.path>>,
                                  res.result)

----------------------------------------------------------------------------
(* Requests *)

\* the table names of request paths: the tables and one that is not there
PathTables == TableNames \cup {"nosuch"}

LimitParams == {Absent, Given(<<"0">>), Given(<<"1">>), Given(<<"2">>),
                Given(<<"-", "1">>), Given(<<"x">>), Given(<<>>)}

OffsetParams == {Absent, Given(<<"1">>), Given(<<"2">>), Given(<<"1", "x">>)}

SortColumns == {"", "id", "age", "bogus"}

SortDirections == {<<>>, sAsc, sDesc, <<"A", "S", "C">>, <<"D", "e", "s", "c">>, <<"u", "p">>}

WhereClauses ==
  {EmptyClause,
   [col |-> "age", op |-> "=", val |-> 1],
   [col |-> "age", op |-> "IS NULL", val |-> NULL],
   [col |-> "bogus", op |-> "=", val |-> 1]}

\* the maps of column names to values with at most n entries
Maps(cols, n) ==
  UNION {[S -> Values] : S \in {X \in SUBSET cols : Cardinality(X) <= n}}

\* the column names of the maps of a request on table t
BodyColumns(t) == IF t \in TableNames THEN ColumnNames(t) \cup {"bogus"} ELSE {"id"}

JsonMaps(t) == {Absent} \cup {Given(m) : m \in Maps(BodyColumns(t), MaxMapSize)}

\* the where maps of an update: on the columns the table has
WhereMaps(t) ==
  {Absent} \cup {Given(m) : m \in Maps(BodyColumns(t) \ {"bogus"}, MaxMapSize)}

SqlTexts ==
  {<<>>, <<" ", "\n">>,
   kSELECT \o <<" ", "* FROM users">>,
   <<" ", "s", "e", "l", "e", "c", "t", " ", "* FROM users", "\n">>,
   <<"S", "e", "l", "E", "c", "T", " ", "* FROM users">>,
   <<"-", "-", "c", "\n">> \o kSELECT \o <<" ", "* FROM users">>,
   kSELECT \o <<"E", "D", " ", "* FROM users">>,
   kDELETE \o <<" ", "FROM users">>,
   <<"\t", "d", "e", "l", "e", "t", "e", " ", "FROM users">>,
   <<"u", "p", " ", "FROM users">>,
   kDELETE \o <<" ", "FROM users", ";", " ", "u", "p", " ", "FROM users">>}

Idle == [op |-> "idle"]

\* the response reaches the client
Deliver == http.op # "idle" /\ http' = Idle /\ UNCHANGED db

DataRequest(tables, limits, offsets, columns, directions, wheres) ==
  /\ http.op = "idle"
  /\ \E t \in tables, l \in limits, o \in offsets,
        sc \in columns, sd \in directions, w \in wheres :
          HandleGetTableData([table |-> t, limit |-> l, offset |-> o, sortColumn |-> sc,
                              sortDirection |-> sd, where |-> w])

\* a body that is not JSON, or one with the maps given
Bodies(t, datas, wheres) ==
  {[table |-> t, malformed |-> TRUE, data |-> Absent, where |-> Absent]}
  \cup {[table |-> t, malformed |-> FALSE, data |-> d, where |-> w] : d \in datas, w \in wheres}

TablesRequest == http.op = "idle" /\ HandleGetTables

SchemaRequest(tables) ==
  /\ http.op = "idle"
  /\ \E t \in tables : HandleGetTableSchema([table |-> t])

InsertRequest(tables) ==
  /\ http.op = "idle"
  /\ \E t \in tables : \E req \in Bodies(t, JsonMaps(t), {Absent}) : HandleInsertRow(req)

UpdateRequest(tables) ==
  /\ http.op = "idle"
  /\ \E t \in tables : \E req \in Bodies(t, JsonMaps(t), WhereMaps(t)) : HandleUpdateRow(req)

DeleteRequest(tables) ==
  /\ http.op = "idle"
  /\ \E t \in tables : \E req \in Bodies(t, {Absent}, JsonMaps(t)) : HandleDeleteRow(req)

SqlRequest ==
  /\ http.op = "idle"
  /\ \E req \in {[malformed |-> TRUE, sql |-> <<>>]}
                \cup {[malformed |-> FALSE, sql |-> q] : q \in SqlTexts} :
        HandleExecuteSQL(req)

----------------------------------------------------------------------------
(* Specifications *)

\* the slots of the fixture
SlotsFixture == {[id |-> 1, room |-> 1, hour |-> 1]}

\* the fixture: two users, one slot
Init ==
  /\ db = [users |-> {[id |-> 1, email |-> 1, age |-> 1],
                      [id |-> 2, email |-> 2, age |-> NULL]},
           slots |-> SlotsFixture]
  /\ http = Idle

\* the contents a table can have
TableContents(t) ==
  {rs \in SUBSET RowsOf(t) :
     /\ Cardinality(rs) <= MaxRows
     /\ \A r \in rs : Violated(t, r, rs \ {r}) = {}}

\* any users table
InitAnyUsers ==
  /\ db \in [users : TableContents("users"), slots : {SlotsFixture}]
  /\ http = Idle

\* every endpoint, on the users table
Next ==
  \/ DataRequest({"users", "nosuch"}, LimitParams, OffsetParams, {"", "age"},
                 SortDirections, {EmptyClause})
  \/ SchemaRequest(PathTables)
  \/ InsertRequest({"users", "nosuch"})
  \/ UpdateRequest({"users", "nosuch"})
  \/ DeleteRequest({"users", "nosuch"})
  \/ SqlRequest
  \/ Deliver

Spec == Init /\ [][Next]_vars

\* the data endpoint, on every users table
NextData ==
  \/ DataRequest(PathTables, LimitParams, OffsetParams, SortColumns, SortDirections,
                 WhereClauses)
  \/ Deliver

SpecData == InitAnyUsers /\ [][NextData]_vars

\* the row endpoints, on the slots table
NextSlots ==
  \/ InsertRequest({"slots"})
  \/ DeleteRequest({"slots"})
  \/ Deliver

SpecSlots == Init /\ [][NextSlots]_vars

----------------------------------------------------------------------------
(* Requests served at the same time.  gin serves each request on its own   *)
(* goroutine; every operation of the database access layer sends its       *)
(* statements to the engine one by one through the shared *sql.DB, and the *)
(* engine runs one writing statement at a time.                            *)

MaxClients == 3

Clients == 1..MaxClients

\* the requests the clients send, all on table users
ConcurrentRequests ==
  {[kind |-> "insert", data |-> [email |-> 2], where |-> <<>>, sql |-> <<>>],
   [kind |-> "delete", data |-> <<>>, where |-> [email |-> 2], sql |-> <<>>],
   [kind |-> "update", data |-> [email |-> 1], where |-> [email |-> 2], sql |-> <<>>],
   [kind |-> "sql", data |-> <<>>, where |-> <<>>, sql |-> kDELETE \o <<" ", "FROM users">>],
   [kind |-> "sql", data |-> <<>>, where |-> <<>>,
    sql |-> kDELETE \o <<" ", "FROM users", ";", " ", "u", "p", " ", "FROM users">>]}

NotSent == [req |-> [kind |-> "none", data |-> <<>>, where |-> <<>>, sql |-> <<>>],
            pc |-> 0, status |-> 0]

\* the number of statements the operation of a request sends to the engine
StatementCount(r) ==
  IF r.kind = "sql" THEN Len(Statements(TrimSpace(r.sql))) ELSE 1

\* the outcomes of the k-th statement of request r on database d: the
\* error the operation returns for it, and the database after it
StatementOutcomes(d, r, k) ==
  CASE r.kind = "insert" ->
         {[err |-> res.err, db |-> res.db] : res \in InsertRow(d, "users", r.data)}
    [] r.kind = "update" ->
         {[err |-> res.err, db |-> res.db] : res \in UpdateRow(d, "users", r.data, r.where)}
    [] r.kind = "delete" ->
         {[err |-> res.err, db |-> res.db] : res \in DeleteRow(d, "users", r.where)}
    [] r.kind = "sql" ->
         {[err |-> IF res.err # Nil THEN parseConstraintError(res.err) ELSE Nil,
           db |-> res.db] : res \in ExecStatement(d, Statements(TrimSpace(r.sql))[k])}

\* a refusal that leaves the table emptied
LockedAndTorn(d) ==
  [err |-> <<"database is locked">>, db |-> [d EXCEPT !["users"] = {}]]

\* the engine refuses a statement while another connection writes
Locked(d) == [err |-> <<"database is locked">>, db |-> d]

\* one table of one row
ConcurrentStart ==
  [users |-> {[id |-> 1, email |-> 1, age |-> 1]}, slots |-> SlotsFixture]

InitConcurrent ==
  /\ db = ConcurrentStart
  /\ http = [op |-> "concurrent", flight |-> [c \in Clients |-> NotSent]]

\* the request of client c is being served
InFlight(c) == http.flight[c].req.kind # "none" /\ http.flight[c].status = 0

\* client c sends a request: its handler starts
Send(c) ==
  /\ http.op = "concurrent"
  /\ http.flight[c] = NotSent
  /\ \E r \in ConcurrentRequests :
        http' = [http EXCEPT !.flight[c] = [req |-> r, pc |-> 0, status |-> 0]]
  /\ UNCHANGED db

\* the engine runs the next statement of the request of client c; the
\* handler answers when the operation returns
Run(c) ==
  /\ http.op = "concurrent"
  /\ InFlight(c)
  /\ LET f == http.flight[c]
     IN \E res \in StatementOutcomes(db, f.req, f.pc + 1)
                   \cup (IF \E o \in Clients \ {c} : InFlight(o)
                         THEN {Locked(db)} ELSE {}) :
          /\ WithinBounds(res.db)
          /\ db' = res.db
          /\ http' = [http EXCEPT !.flight[c] =
                IF res.err # Nil
                THEN [f EXCEPT !.status = IF f.req.kind = "sql" THEN StatusBadRequest
                                          ELSE StatusInternalServerError]
                ELSE [f EXCEPT !.pc = @ + 1,
                               !.status = IF f.pc + 1 < StatementCount(f.req) THEN 0
                                          ELSE IF f.req.kind = "insert" THEN StatusCreated
                                          ELSE StatusOK]]

NextConcurrent ==
  \/ \E c \in Clients : Send(c)
  \/ \E c \in Clients : Run(c)

SpecConcurrent == InitConcurrent /\ [][NextConcurrent]_vars

\* a value the driver scanned from a column of a row
InitAnyValue ==
  /\ db = [users |-> {}, slots |-> SlotsFixture]
  /\ http \in {[op |-> "driver", value |-> v] : v \in DriverValues}

\* the value goes through the row loop of GetTableData
ScanData ==
  /\ http.op = "driver"
  /\ http' = [op |-> "scanned", path |-> "data", value |-> http.value,
              surfaced |-> ScanDataValue(http.value)]
  /\ UNCHANGED db

\* the value goes through the row loop of executeSelectQuery
ScanQuery ==
  /\ http.op = "driver"
  /\ http' = [op |-> "scanned", path |-> "query", value |-> http.value,
              surfaced |-> ScanQueryValue(http.value)]
  /\ UNCHANGED db

NextScan ==
  \/ ScanData
  \/ ScanQuery

SpecScan == InitAnyValue /\ [][NextScan]_vars

\* any catalog, its tables empty
InitAnyCatalog ==
  /\ db \in UNION {[ns -> {{}}] : ns \in SUBSET CatalogNames}
  /\ http = Idle

\* the tables endpoint, on every catalog
NextTables ==
  \/ TablesRequest
  \/ Deliver

SpecTables == InitAnyCatalog /\ [][NextTables]_vars

----------------------------------------------------------------------------
(* Properties of the data endpoint *)

\* the column names of the schema GetTableSchema resolves for table t
SchemaNames(t) ==
  {GetTableSchema(t).columns[i].name : i \in DOMAIN GetTableSchema(t).columns}

\* the limit and the offset of a request of the data endpoint
LimitOf(req) == Atoi(DefaultQuery(req.limit, <<"1", "0", "0">>))

OffsetOf(req) == Atoi(DefaultQuery(req.offset, <<"0">>))

\* C1: a request of the data endpoint that passed the handler's checks and
\* whose sort_column is not empty and not a column of the resolved schema is
\* answered 500, never with a page.
C1_InvalidSortColumnFails ==
  (/\ http.op = "data"
   /\ http.dbCalled
   /\ http.req.sortColumn # ""
   /\ http.req.sortColumn \notin SchemaNames(http.req.table))
  => http.status = StatusInternalServerError

\* the column names a request of the data endpoint carries
RequestColumns(req) ==
  (IF req.sortColumn # "" THEN {req.sortColumn} ELSE {})
  \cup (IF req.where # EmptyClause THEN {req.where.col} ELSE {})

\* C2: every statement GetTableData sends to the engine holds only columns
\* of the resolved schema, and a request that names another column is
\* rejected.
C2_OnlySchemaColumnsReachEngine ==
  http.op = "data" =>
    /\ \A i \in DOMAIN http.stmts :
          StmtColumns(http.stmts[i]) \subseteq SchemaNames(http.req.table)
    /\ (http.dbCalled /\ ~(RequestColumns(http.req) \subseteq SchemaNames(http.req.table)))
          => http.status # StatusOK

\* the rows of a set that satisfy a where clause, and one of its sequences
\* sorted by column col: NULL first when ascending, last when descending
SortedBy(s, col, dir) ==
  \A i, j \in DOMAIN s :
     i < j => IF dir = sAsc THEN s[i][col] <= s[j][col] ELSE s[i][col] >= s[j][col]

\* the row sequences a request of the data endpoint pages through
RowSequences(rows, req) ==
  IF req.sortColumn # "" /\ req.sortDirection # <<>>
  THEN {s \in Perms(rows) : SortedBy(s, req.sortColumn, req.sortDirection)}
  ELSE {Scan(rows)}

\* C10: a successful answer of the data endpoint to a request with limit >= 0
\* and offset >= 0 holds as total the number of rows satisfying the where
\* clause, and as rows the slice of the filtered (and, when a sort is
\* requested, sorted) row sequence from offset, of length
\* min(limit, max(0, total - offset)); the count statement and the page
\* statement carry the same where clause.
C10_TotalAndPageSlice ==
  (/\ http.op = "data"
   /\ http.status = StatusOK
   /\ LimitOf(http.req).val >= 0
   /\ OffsetOf(http.req).val >= 0)
  => LET req    == http.req
         rows   == {r \in db[req.table] : Satisfies(r, req.where)}
         total  == Cardinality(rows)
         offset == OffsetOf(req).val
         n      == Min(LimitOf(req).val, Max(0, total - offset))
     IN /\ http.body.total = total
        /\ \E s \in RowSequences(rows, req) :
              http.body.rows = SubSeq(s, offset + 1, offset + n)
        /\ \A i, j \in DOMAIN http.stmts :
              (http.stmts[i].kind = "SELECT COUNT(*)" /\ http.stmts[j].kind = "SELECT *")
              => (http.stmts[i].where = req.where /\ http.stmts[j].where = req.where)

\* a filtered, sorted page that is neither the start nor the whole of the rows
C10_Witness ==
  /\ http.op = "data"
  /\ http.status = StatusOK
  /\ http.req.where.col = "age"
  /\ http.req.sortColumn = "id"
  /\ http.req.sortDirection = sDesc
  /\ OffsetOf(http.req).val = 1
  /\ Len(http.body.rows) = 1
  /\ http.body.total = 2

----------------------------------------------------------------------------
(* Properties of the handlers' checks *)

\* the text of an integer: an optional sign, then digits
IsIntegerText(s) ==
  LET digits == IF s # <<>> /\ Head(s) \in {"+", "-"} THEN Tail(s) ELSE s
  IN digits # <<>> /\ \A i \in DOMAIN digits : IsDigit(digits[i])

\* answered 400 with an error, and nothing reached the database access layer
RejectedByHandler(h) ==
  h.status = StatusBadRequest /\ h.error # Nil /\ ~h.dbCalled /\ h.stmts = <<>>

\* C3: an insert with an empty data map, an update with an empty data map or
\* an empty or absent where map, and a delete with an empty or absent where
\* map return an error, send no statement to the engine and leave every table
\* as it was.
C3_EmptyMapsRefused ==
  [][(/\ http'.op \in {"insert", "update", "delete"}
      /\ ~http'.req.malformed
      /\ \/ http'.op \in {"insert", "update"} /\ DOMAIN Bound(http'.req.data) = {}
         \/ http'.op \in {"update", "delete"} /\ DOMAIN Bound(http'.req.where) = {})
     => (http'.error # Nil /\ http'.stmts = <<>> /\ db' = db)]_vars

\* an update with data and no where map, refused
C3_Witness ==
  /\ http.op = "update"
  /\ ~http.req.malformed
  /\ DOMAIN Bound(http.req.data) # {}
  /\ ~http.req.where.set
  /\ http.error = <<"no where clause provided">>
  /\ http.stmts = <<>>

\* C4: a limit or an offset that is not an integer, a sort_direction that is
\* given and neither asc nor desc, a body that is not JSON on the row and
\* execute endpoints, and an sql text that is empty or all white space are
\* answered 400 with an error before any operation of the database access
\* layer is called.
C4_HandlerRejects ==
  /\ (/\ http.op = "data"
      /\ \/ ~IsIntegerText(DefaultQuery(http.req.limit, <<"1", "0", "0">>))
         \/ ~IsIntegerText(DefaultQuery(http.req.offset, <<"0">>))
         \/ http.req.sortDirection \notin {<<>>, sAsc, sDesc})
     => RejectedByHandler(http)
  /\ (http.op \in {"insert", "update", "delete", "sql"} /\ http.req.malformed)
     => RejectedByHandler(http)
  /\ (/\ http.op = "sql"
      /\ ~http.req.malformed
      /\ \A i \in DOMAIN http.req.sql : IsSpace(http.req.sql[i]))
     => RejectedByHandler(http)

\* a request for a page sorted "up", answered 400
C4_Witness ==
  /\ http.op = "data"
  /\ IsIntegerText(DefaultQuery(http.req.limit, <<"1", "0", "0">>))
  /\ IsIntegerText(DefaultQuery(http.req.offset, <<"0">>))
  /\ http.req.sortDirection = <<"u", "p">>
  /\ http.status = StatusBadRequest

----------------------------------------------------------------------------
(* Properties of the row endpoints *)

\* the unfiltered first page of table t: what the next GetTableData returns
FirstPages(d, t) == GetTableData(d, t, 100, 0, "", <<>>, EmptyClause)

\* row r holds the values of an inserted map (a rowid given as NULL is
\* assigned by the engine)
HoldsInserted(r, data) ==
  \A c \in DOMAIN data : r[c] = data[c] \/ (c = "id" /\ data[c] = NULL)

\* C5: a successful answer of the data endpoint shows the table as it is when
\* the request is served, and after every insert answered 201 the next
\* unfiltered read of that table returns the previous total plus one and a
\* row holding the inserted values.
C5_ReadAfterInsert ==
  /\ [](http.op = "data" /\ http.status = StatusOK
        => /\ http.body.total = Cardinality(db[http.req.table])
           /\ Range(http.body.rows) \subseteq db[http.req.table])
  /\ [][(http'.op = "insert" /\ http'.status = StatusCreated)
        => \A res \in FirstPages(db', http'.req.table) :
              /\ res.err = Nil
              /\ res.data.total = Cardinality(db[http'.req.table]) + 1
              /\ \E k \in DOMAIN res.data.rows :
                    /\ HoldsInserted(res.data.rows[k], Bound(http'.req.data))
                    /\ res.data.rows[k] \notin db[http'.req.table]]_vars

\* an insert answered 201
C5_Witness ==
  /\ http.op = "insert"
  /\ http.status = StatusCreated
  /\ \E r \in db[http.req.table] : HoldsInserted(r, Bound(http.req.data))

\* C6: an insert the engine rejects for a unique constraint, of one column or
\* of several, leaves the table as it was and is answered with the message
\* that names one column of the table, bare.
C6_UniqueErrorNamesColumn ==
  [][(/\ http'.op = "insert"
      /\ ~http'.req.malformed
      /\ http'.req.table \in TableNames
      /\ DOMAIN Bound(http'.req.data) # {}
      /\ DOMAIN Bound(http'.req.data) \subseteq ColumnNames(http'.req.table)
      /\ Contains(http'.error, "' already exists. This field must be unique."))
     => /\ db' = db
        /\ \E c \in ColumnNames(http'.req.table) :
              http'.error = <<"The value for '", c,
                              "' already exists. This field must be unique.">>]_vars

\* C7: a statement answered 200 whose first keyword is SELECT went the query
\* way and returns the column names and the rows with rowCount their number;
\* any other went the mutation way and returns the rows-affected summary.
C7_DispatchByFirstKeyword ==
  (http.op = "sql" /\ http.status = StatusOK)
  => IF FirstKeyword(http.req.sql) = kSELECT
     THEN /\ http.stmts = <<"query">>
          /\ http.body.rowCount = Len(http.body.rows)
          /\ http.body.columns # <<"rows_affected">>
     ELSE /\ http.stmts = <<"exec">>
          /\ http.body.columns = <<"rows_affected">>
          /\ Len(http.body.rows) = 1
          /\ http.body.rowCount = 1

\* row r matches every equality "col = value" of a where map: SQL's '=',
\* which no NULL satisfies
WhereMatches(r, where) ==
  \A c \in DOMAIN where :
     c \in DOMAIN r /\ r[c] # NULL /\ where[c] # NULL /\ r[c] = where[c]

\* C8: a delete with a non-empty where map that succeeds removes from the
\* table exactly the rows matching every equality of the map and leaves the
\* other rows and the other tables as they were, and the next read shows
\* exactly the rows that did not match; one that fails removes nothing.
C8_DeleteExactlyMatching ==
  [][(/\ http'.op = "delete"
      /\ ~http'.req.malformed
      /\ DOMAIN Bound(http'.req.where) # {})
     => IF http'.status = StatusOK
        THEN LET t    == http'.req.table
                 kept == {r \in db[t] : ~WhereMatches(r, Bound(http'.req.where))}
             IN /\ db'[t] = kept
                /\ \A u \in TableNames \ {t} : db'[u] = db[u]
                /\ \A res \in FirstPages(db', t) :
                      res.err = Nil /\ Range(res.data.rows) = kept
        ELSE db' = db]_vars

\* a delete by two columns that left a row behind
C8_Witness ==
  /\ http.op = "delete"
  /\ http.status = StatusOK
  /\ Cardinality(DOMAIN Bound(http.req.where)) = 2
  /\ \A c \in DOMAIN Bound(http.req.where) : Bound(http.req.where)[c] # NULL
  /\ Cardinality(db[http.req.table]) = 1
  /\ \A r \in db[http.req.table] : ~WhereMatches(r, Bound(http.req.where))

\* C9: an update with both maps non-empty that succeeds sets, on exactly the
\* rows matching every equality of where, exactly the columns of data to the
\* values given; the other columns, the other rows, the other tables and the
\* number of rows stay; one that fails changes nothing.
C9_UpdateExactlyMatching ==
  [][(/\ http'.op = "update"
      /\ ~http'.req.malformed
      /\ DOMAIN Bound(http'.req.data) # {}
      /\ DOMAIN Bound(http'.req.where) # {})
     => IF http'.status = StatusOK
        THEN LET t     == http'.req.table
                 data  == Bound(http'.req.data)
                 hit   == {r \in db[t] : WhereMatches(r, Bound(http'.req.where))}
                 after == {[c \in ColumnNames(t) |->
                              IF c \in DOMAIN data THEN data[c] ELSE r[c]] : r \in hit}
             IN /\ db'[t] = (db[t] \ hit) \cup after
                /\ Cardinality(db'[t]) = Cardinality(db[t])
                /\ \A u \in TableNames \ {t} : db'[u] = db[u]
        ELSE db' = db]_vars

\* an update of one row of two, which now holds the values given
C9_Witness ==
  /\ http.op = "update"
  /\ http.status = StatusOK
  /\ Cardinality(db[http.req.table]) = 2
  /\ \A c \in DOMAIN Bound(http.req.where) : Bound(http.req.where)[c] # NULL
  /\ \E r \in db[http.req.table] :
        /\ \A c \in DOMAIN Bound(http.req.data) : r[c] = Bound(http.req.data)[c]
        /\ \E q \in db[http.req.table] :
              \E c \in DOMAIN Bound(http.req.data) : q[c] # Bound(http.req.data)[c]

----------------------------------------------------------------------------
(* Properties of the schema endpoint *)

\* C11: a request for the schema of a table that the catalog does not hold
\* is answered with an error, never with 200 and a column list.
C11_SchemaOfMissingTableFails ==
  (http.op = "schema" /\ http.req.table \notin TableNames)
  => (http.status # StatusOK /\ http.error # Nil)

\* column c is the only column of a unique index of table t
SoleColumnOfUniqueIndex(t, c) ==
  \E i \in DOMAIN IndexList[t] :
     IndexList[t][i].unique = 1 /\ IndexList[t][i].cols = <<c>>

\* C12: the schema answered for a table marks a column unique exactly when
\* the column is the only column of one of the table's unique indexes.
C12_UniqueFlag ==
  (http.op = "schema" /\ http.status = StatusOK /\ http.req.table \in TableNames)
  => /\ {http.body.columns[i].name : i \in DOMAIN http.body.columns}
          = ColumnNames(http.req.table)
     /\ \A i \in DOMAIN http.body.columns :
           http.body.columns[i].unique
           <=> SoleColumnOfUniqueIndex(http.req.table, http.body.columns[i].name)

\* the schema of slots, whose unique index has two columns: none marked
C12_Witness ==
  /\ http.op = "schema"
  /\ http.status = StatusOK
  /\ http.req.table = "slots"
  /\ \A i \in DOMAIN http.body.columns : ~http.body.columns[i].unique

----------------------------------------------------------------------------
(* Properties of the tables endpoint *)

\* the name begins with the internal prefix sqlite_
InternalName(n) == HasPrefix(Spelling[n], <<"s", "q", "l", "i", "t", "e", "_">>)

\* C13: the tables endpoint lists exactly the tables of the catalog whose
\* name does not begin with sqlite_, each once, in ascending order of name.
C13_TablesListed ==
  (http.op = "tables" /\ http.status = StatusOK)
  => LET listed == http.body.tables
     IN /\ {listed[i].name : i \in DOMAIN listed} = {n \in DOMAIN db : ~InternalName(n)}
        /\ \A i \in DOMAIN listed : listed[i].type = "table"
        /\ \A i, j \in DOMAIN listed :
              i < j => NameLess(Spelling[listed[i].name], Spelling[listed[j].name])

----------------------------------------------------------------------------
(* Properties of the values of the rows *)

\* the code of a hexadecimal digit: 0-9, a-f
HexCode(d) == IF d < 10 THEN 48 + d ELSE 87 + d

\* the hex encoding of bytes, two digits for each
RECURSIVE Hex(_)
Hex(bs) ==
  IF bs = <<>> THEN <<>>
  ELSE <<HexCode(Head(bs) \div 16), HexCode(Head(bs) % 16)>> \o Hex(Tail(bs))

\* C14: in the rows of the data endpoint and of the query path of
\* ExecuteSQL a blob is surfaced as the hex encoding of its bytes, two digits
\* per byte, NULL as null, and any other value as it is.
C14_BlobSurfacedAsHex ==
  http.op = "scanned"
  => http.surfaced =
       IF http.value.kind = "[]byte"
       THEN [kind |-> "string", val |-> Hex(http.value.val)]
       ELSE http.value

----------------------------------------------------------------------------
(* Properties of the sort direction *)

\* a text in lower case
LowerChar(c) ==
  IF \E i \in DOMAIN Upper : Upper[i] = c
  THEN Lower[CHOOSE i \in DOMAIN Upper : Upper[i] = c]
  ELSE c

ToLower(s) == [i \in DOMAIN s |-> LowerChar(s[i])]

\* the limit and the offset of a request are integers
IntegerPaging(req) ==
  /\ IsIntegerText(DefaultQuery(req.limit, <<"1", "0", "0">>))
  /\ IsIntegerText(DefaultQuery(req.offset, <<"0">>))

\* the page statement of an exchange orders by column col in direction dir
OrdersBy(h, col, dir) ==
  \E i \in DOMAIN h.stmts :
     h.stmts[i].kind = "SELECT *" /\ h.stmts[i].order = <<col, ToUpper(dir)>>

\* C15 as stated: every letter-case variant of asc and desc passes the
\* handler's validation and gives the corresponding ORDER BY, and only the
\* values outside that set are rejected.
C15_AnyCaseAccepted ==
  (http.op = "data" /\ IntegerPaging(http.req) /\ http.req.sortDirection # <<>>)
  => IF ToLower(http.req.sortDirection) \in {sAsc, sDesc}
     THEN /\ http.dbCalled
          /\ (http.status = StatusOK /\ http.req.sortColumn # "")
             => OrdersBy(http, http.req.sortColumn, ToLower(http.req.sortDirection))
     ELSE RejectedByHandler(http)

\* C15: the data endpoint accepts as sort_direction exactly asc and desc in
\* lower case: these pass the handler's validation and, with a sort column,
\* give the ascending or descending ORDER BY and rows in that order; every
\* other value that is not empty, ASC and Desc among them, is rejected.
C15_LowerCaseAccepted ==
  (http.op = "data" /\ IntegerPaging(http.req) /\ http.req.sortDirection # <<>>)
  => IF http.req.sortDirection \in {sAsc, sDesc}
     THEN /\ http.dbCalled
          /\ (http.status = StatusOK /\ http.req.sortColumn # "")
             => /\ OrdersBy(http, http.req.sortColumn, http.req.sortDirection)
                /\ SortedBy(http.body.rows, http.req.sortColumn, http.req.sortDirection)
     ELSE RejectedByHandler(http)

\* a page of two rows in descending order of age
C15_Witness ==
  /\ http.op = "data"
  /\ http.status = StatusOK
  /\ http.req.sortColumn = "age"
  /\ http.req.sortDirection = sDesc
  /\ Len(http.body.rows) = 2
  /\ http.body.rows[1]["age"] > http.body.rows[2]["age"]

----------------------------------------------------------------------------
(* web/src/components/TableView.tsx: the selection of rows of the page and *)
(* handleBulkDeleteConfirmed.  The component holds the page it loaded       *)
(* (tableData.rows), the selected row indexes in the order they were added *)
(* to the Set, and the error dialog; every await of api.deleteRow is one   *)
(* request served by Handler.DeleteRow.                                    *)

MaxSelected == 3

\* tableData.rows: the page the component loaded
BulkPage == [i \in 1..MaxSelected |-> [id |-> i, room |-> 1, hour |-> NULL]]

\* tableData.columns.filter(col => col && col.primary_key)
PrimaryKeyColumns(tableName) ==
  LET columns == GetTableSchema(tableName).columns
  IN {columns[i].name : i \in {j \in DOMAIN columns : columns[j].primary_key}}

\* the where clause of the first row of the page
WhereClauseOfFirstRow(rows, cols, rowIndex) == [c \in cols |-> rows[1][c]]

\* whereClause[col.name] = row[col.name] for the primary key columns
WhereClause(rows, cols, rowIndex) == [c \in cols |-> rows[rowIndex][c]]

\* the table holds the page; nothing selected, no dialog
InitBulk ==
  /\ db = [users |-> {}, slots |-> Range(BulkPage)]
  /\ http = [op |-> "bulk", table |-> "slots", rows |-> BulkPage, phase |-> "idle",
             selected |-> <<>>, todo |-> <<>>, sent |-> <<>>, errors |-> <<>>,
             reloads |-> 0]

\* handleRowSelect: the index leaves the Set, or joins it at its end
RowSelect ==
  /\ http.op = "bulk" /\ http.phase = "idle"
  /\ \E rowIndex \in DOMAIN http.rows :
        http' = [http EXCEPT !.selected =
                   IF rowIndex \in Range(@)
                   THEN SelectSeq(@, LAMBDA x : x # rowIndex)
                   ELSE Append(@, rowIndex)]
  /\ UNCHANGED db

\* handleBulkDelete and the confirmation: handleBulkDeleteConfirmed starts
\* with the selection it captured
BulkDelete ==
  /\ http.op = "bulk" /\ http.phase = "idle"
  /\ Len(http.selected) > 0
  /\ http' = IF PrimaryKeyColumns(http.table) = {}
             THEN [http EXCEPT !.errors = Append(@, <<"Cannot Delete Rows">>)]
             ELSE [http EXCEPT !.phase = "deleting", !.todo = http.selected]
  /\ UNCHANGED db

\* the answers a request can get: the handler's, a refusal of the engine,
\* or none (the connection fails before or after the server acted)
BulkAnswers(d, tableName, where) ==
  {[failed |-> res.err # Nil, db |-> res.db] : res \in DeleteRow(d, tableName, where)}
  \cup {[failed |-> TRUE, db |-> d]}
  \cup {[failed |-> TRUE, db |-> res.db] : res \in DeleteRow(d, tableName, where)}

\* one turn of the loop: await api.deleteRow(tableName, whereClause); the
\* catch block after a failure, the code after the loop after the last row
BulkDeleteNext ==
  /\ http.op = "bulk" /\ http.phase = "deleting"
  /\ LET rowIndex == http.todo[Len(http.sent) + 1]
         where == WhereClause(http.rows, PrimaryKeyColumns(http.table), rowIndex)
     IN \E ans \in BulkAnswers(db, http.table, where) :
          /\ db' = ans.db
          /\ http' = IF ans.failed
                     THEN [http EXCEPT !.sent = Append(@, where), !.phase = "failed",
                                       !.errors = Append(@, <<"Failed to Delete Rows">>)]
                     ELSE IF Len(http.sent) + 1 < Len(http.todo)
                     THEN [http EXCEPT !.sent = Append(@, where)]
                     ELSE [http EXCEPT !.sent = Append(@, where), !.phase = "done",
                                       !.selected = <<>>, !.reloads = @ + 1]

NextBulk == RowSelect \/ BulkDelete \/ BulkDeleteNext

SpecBulk == InitBulk /\ [][NextBulk]_vars

----------------------------------------------------------------------------
(* cmd/main.go: the process.  main parses its flags, opens the database,   *)
(* defers its Close, builds the router and runs it.  router.Run is         *)
(* http.ListenAndServe, which returns only with an error; log.Fatal and    *)
(* log.Fatalf end the process with os.Exit(1), and so does a signal: none  *)
(* of them runs the deferred calls.                                        *)

MaxServed == 5

\* the values of --db: not given, a database file, a path that cannot be opened
DbPaths == {"", "test.db", "nodir/test.db"}

\* the values of --port: the default, one in use, one not allowed
Ports == {"8080", "3000", "80"}

InitMain ==
  /\ db = [users |-> {}, slots |-> SlotsFixture]
  /\ \E path \in DbPaths, port \in Ports :
        http = [op |-> "main", pc |-> "flags", dbPath |-> path, port |-> port,
                opens |-> 0, closes |-> 0, handle |-> "none", deferred |-> <<>>,
                listening |-> FALSE, served |-> 0, exit |-> "running"]

\* os.Exit(1) after the message is logged: the deferred calls are not run
Fatal(h) == [h EXCEPT !.pc = "exited", !.exit = "fatal", !.listening = FALSE]

\* flag.Parse and the check of --db (main.go:16-20)
ParseFlags ==
  /\ http.op = "main" /\ http.pc = "flags"
  /\ http' = IF http.dbPath = "" THEN Fatal(http) ELSE [http EXCEPT !.pc = "open"]
  /\ UNCHANGED db

\* db.NewSQLiteDB, its error check and defer database.Close() (main.go:22-26)
OpenDatabase ==
  /\ http.op = "main" /\ http.pc = "open"
  /\ \/ /\ http.dbPath = "test.db"
        /\ http' = [http EXCEPT !.pc = "routes", !.opens = @ + 1, !.handle = "open",
                                !.deferred = <<"database.Close">> \o @]
     \/ /\ http.dbPath # "test.db"
        /\ http' = Fatal(http)
  /\ UNCHANGED db

\* api.NewHandler(database) and handler.SetupRoutes() (main.go:28-29)
BuildRouter ==
  /\ http.op = "main" /\ http.pc = "routes"
  /\ http' = [http EXCEPT !.pc = "run"]
  /\ UNCHANGED db

\* router.Run(":" + port): the listener binds, or Run returns its error
\* and main calls log.Fatalf (main.go:32-34)
Listen ==
  /\ http.op = "main" /\ http.pc = "run"
  /\ http' = IF http.port = "8080"
             THEN [http EXCEPT !.pc = "serving", !.listening = TRUE]
             ELSE Fatal(http)
  /\ UNCHANGED db

\* a request is served with the handle the handler was built with
Serve ==
  /\ http.op = "main" /\ http.pc = "serving"
  /\ http.served < MaxServed
  /\ http.handle = "open"
  /\ \E m \in {[email |-> 1], [email |-> 2]} :
       \E res \in InsertRow(db, "users", m) \cup DeleteRow(db, "users", m) :
          /\ WithinBounds(res.db)
          /\ db' = res.db
  /\ http' = [http EXCEPT !.served = @ + 1]

\* the accept loop fails: Run returns the error and main calls log.Fatalf
ServeFails ==
  /\ http.op = "main" /\ http.pc = "serving"
  /\ http' = Fatal(http)
  /\ UNCHANGED db

\* the process is ended by a signal it does not handle
Signal ==
  /\ http.op = "main" /\ http.pc # "exited"
  /\ http' = [http EXCEPT !.pc = "exited", !.exit = "signal", !.listening = FALSE]
  /\ UNCHANGED db

NextMain ==
  ParseFlags \/ OpenDatabase \/ BuildRouter \/ Listen \/ Serve \/ ServeFails \/ Signal

SpecMain == InitMain /\ [][NextMain]_vars

----------------------------------------------------------------------------
(* internal/api/handlers.go: SetupRoutes.  A path is its characters.  The  *)
(* middleware runs before every handler, the NoRoute handler included; gin *)
(* redirects a path that differs from a route by its trailing slash.       *)

StatusNoContent == 204

StatusMovedPermanently == 301

StatusNotFound == 404

pApi == <<"/", "a", "p", "i">>

pAssets == <<"/", "a", "s", "s", "e", "t", "s">>

pStatic == <<"/", "s", "t", "a", "t", "i", "c">>

pViteSvg == <<"/", "v", "i", "t", "e", ".", "s", "v", "g">>

pDatabaseSvg == <<"/", "d", "a", "t", "a", "b", "a", "s", "e", ".", "s", "v", "g">>

pRoot == <<"/">>

pInfo == pApi \o <<"/", "i", "n", "f", "o">>

Methods == {"GET", "POST", "OPTIONS"}

\* the request paths: a beginning and an end, a slash first
Paths ==
  {path \in
     {head \o tail : head \in {<<>>, pApi, pAssets, pStatic, pViteSvg, pDatabaseSvg,
                                <<"/", "t", "a", "b", "l", "e", "s">>},
                     tail \in {<<>>, pRoot, <<"/", "x">>, <<"x">>, <<"/", "i", "n", "f", "o">>}} :
     path # <<>> /\ path[1] = "/"}

\* the routes of r.Static, r.StaticFile and of the api group that the
\* paths can name: the handler of the route, or "" (handlers.go:199-216)
RouteOf(method, path) ==
  IF method = "GET" /\ (HasPrefix(path, pStatic \o pRoot) \/ HasPrefix(path, pAssets \o pRoot))
  THEN "Static"
  ELSE IF method = "GET" /\ path \in {pViteSvg, pDatabaseSvg, pRoot}
  THEN "StaticFile"
  ELSE IF method = "GET" /\ path = pInfo
  THEN "GetDatabaseInfo"
  ELSE ""

\* RedirectTrailingSlash: the path with or without its last slash is a route
TrailingSlashRoute(method, path) ==
  \/ RouteOf(method, path \o pRoot) # ""
  \/ Len(path) > 1 /\ path[Len(path)] = "/"
     /\ RouteOf(method, SubSeq(path, 1, Len(path) - 1)) # ""

Answer(method, path, dist, handler, status, body) ==
  [op |-> "route", method |-> method, path |-> path, dist |-> dist,
   handler |-> handler, status |-> status, body |-> body]

\* the NoRoute handler (handlers.go:218-236)
NoRoute(method, path, dist) ==
  IF HasPrefix(path, pApi)
  THEN Answer(method, path, dist, "NoRoute", StatusNotFound, "")
  ELSE IF \/ HasPrefix(path, pAssets)
          \/ HasPrefix(path, pStatic)
          \/ path = pViteSvg
          \/ path = pDatabaseSvg
  THEN Answer(method, path, dist, "NoRoute", StatusNotFound, "")
  ELSE IF dist
  THEN Answer(method, path, dist, "NoRoute", StatusOK, "index.html")
  ELSE Answer(method, path, dist, "NoRoute", StatusNotFound, "")

\* the engine serves a request: the middleware, then the route, the
\* redirect or the NoRoute handler; dist tells whether ./web/dist is built
ServeHTTP(method, path, dist) ==
  IF method = "OPTIONS"
  THEN Answer(method, path, dist, "CORS", StatusNoContent, "")
  ELSE IF RouteOf(method, path) # ""
  THEN Answer(method, path, dist, RouteOf(method, path),
              IF dist \/ RouteOf(method, path) = "GetDatabaseInfo"
              THEN StatusOK ELSE StatusNotFound, "")
  ELSE IF TrailingSlashRoute(method, path)
  THEN Answer(method, path, dist, "redirectTrailingSlash", StatusMovedPermanently, "")
  ELSE NoRoute(method, path, dist)

RouteRequest ==
  /\ http.op = "idle"
  /\ \E method \in Methods, path \in Paths, dist \in BOOLEAN :
        http' = ServeHTTP(method, path, dist)
  /\ UNCHANGED db

NextRoute == RouteRequest \/ Deliver

SpecRoute == Init /\ [][NextRoute]_vars

----------------------------------------------------------------------------
(* web/src/components/TableView.tsx: buildFilterQuery and the where clause *)
(* of loadTableData.  A text is its pieces: a name, a keyword, a digit or a *)
(* single character.  A filter value is what typeof and String() give for *)
(* it.  The engine reads the clause the server splices after WHERE: it     *)
(* lexes the pieces, and AND binds tighter than OR.                        *)

sNumber(n) == [kind |-> "number", text |-> <<Digits[n + 1]>>]

sString(text) == [kind |-> "string", text |-> text]

sNull == [kind |-> "null", text |-> <<>>]

\* String(value).replace(/'/g, "''")
ReplaceQuotes(text) ==
  Flatten([i \in DOMAIN text |-> IF text[i] = "'" THEN <<"'", "'">> ELSE <<text[i]>>])

\* filter.value !== null && filter.value !== undefined && filter.value !== ''
HasValue(filter) == filter.value.kind # "null" /\ filter.value # sString(<<>>)

\* the switch of buildFilterQuery: the conditions one filter pushes
Conditions(filter) ==
  LET columnName == filter.columnName
      text       == filter.value.text
  IN CASE filter.operator = "contains" ->
            IF HasValue(filter)
            THEN << <<columnName, " ", "LIKE", " ", "'", "%">>
                    \o ReplaceQuotes(text) \o <<"%", "'">> >>
            ELSE <<>>
       [] filter.operator = "equals" ->
            IF ~HasValue(filter) THEN <<>>
            ELSE IF filter.value.kind = "string"
            THEN << <<columnName, " ", "=", " ", "'">> \o ReplaceQuotes(text) \o <<"'">> >>
            ELSE << <<columnName, " ", "=", " ">> \o text >>
       [] filter.operator = "greater" ->
            IF HasValue(filter) THEN << <<columnName, " ", ">", " ">> \o text >> ELSE <<>>
       [] filter.operator = "less" ->
            IF HasValue(filter) THEN << <<columnName, " ", "<", " ">> \o text >> ELSE <<>>
       [] filter.operator = "null" ->
            << <<columnName, " ", "IS", " ", "NULL">> >>
       [] filter.operator = "not_null" ->
            << <<columnName, " ", "IS", " ", "NOT", " ", "NULL">> >>
       [] filter.operator = "true" ->
            << <<columnName, " ", "=", " ", "1", " ", "OR", " ",
                 columnName, " ", "=", " ", "'", "true", "'", " ", "OR", " ",
                 columnName, " ", "=", " ", "'", "True", "'">> >>
       [] filter.operator = "false" ->
            << <<columnName, " ", "=", " ", "0", " ", "OR", " ",
                 columnName, " ", "=", " ", "'", "false", "'", " ", "OR", " ",
                 columnName, " ", "=", " ", "'", "False", "'", " ", "OR", " ",
                 columnName, " ", "IS", " ", "NULL">> >>
       [] OTHER -> <<>>

\* buildFilterQuery: Object.values(filters) in the order of the keys
buildFilterQuery(filters) == Flatten([i \in DOMAIN filters |-> Conditions(filters[i])])

RECURSIVE Join(_, _)
\* Array.prototype.join
Join(parts, sep) ==
  IF parts = <<>> THEN <<>>
  ELSE IF Len(parts) = 1 THEN parts[1]
  ELSE parts[1] \o sep \o Join(Tail(parts), sep)

\* whereConditions.join(' AND '); an empty text stands for undefined
FilterWhereClause(filters) == Join(buildFilterQuery(filters), <<" ", "AND", " ">>)

RECURSIVE StringEnd(_, _)
\* the place of the quote that closes the string literal scanned from i, or 0
StringEnd(s, i) ==
  IF i > Len(s) THEN 0
  ELSE IF s[i] # "'" THEN StringEnd(s, i + 1)
  ELSE IF i < Len(s) /\ s[i + 1] = "'" THEN StringEnd(s, i + 2)
  ELSE i

RECURSIVE Unquote(_)
\* the content of a string literal: each doubled quote is one quote
Unquote(s) ==
  IF s = <<>> THEN <<>>
  ELSE IF Head(s) = "'" THEN <<"'">> \o Unquote(Tail(Tail(s)))
  ELSE <<Head(s)>> \o Unquote(Tail(s))

RECURSIVE Lex(_)
\* the tokens of a clause: string literals, numbers, and words (names,
\* keywords, operators); a string that is not closed is a bad token
Lex(s) ==
  IF s = <<>> THEN <<>>
  ELSE IF Head(s) = " " THEN Lex(Tail(s))
  ELSE IF Head(s) = "'"
  THEN LET e == StringEnd(s, 2)
       IN IF e = 0 THEN << [k |-> "bad", v |-> <<>>] >>
          ELSE << [k |-> "str", v |-> Unquote(SubSeq(s, 2, e - 1))] >>
               \o Lex(SubSeq(s, e + 1, Len(s)))
  ELSE IF IsDigit(Head(s)) THEN << [k |-> "num", v |-> <<Head(s)>>] >> \o Lex(Tail(s))
  ELSE << [k |-> "word", v |-> <<Head(s)>>] >> \o Lex(Tail(s))

kw(w) == [k |-> "word", v |-> <<w>>]

\* a term of a comparison: a literal, or a column of the table
IsTerm(tableName, tok) ==
  tok.k \in {"num", "str"} \/ (tok.k = "word" /\ tok.v[1] \in ColumnNames(tableName))

\* a comparison the engine accepts
WellFormed(tableName, atom) ==
  \/ /\ Len(atom) = 3
     /\ IsTerm(tableName, atom[1]) /\ IsTerm(tableName, atom[3])
     /\ atom[2] \in {kw("="), kw(">"), kw("<"), kw("LIKE")}
  \/ /\ Len(atom) = 3
     /\ IsTerm(tableName, atom[1]) /\ atom[2] = kw("IS") /\ atom[3] = kw("NULL")
  \/ /\ Len(atom) = 4
     /\ IsTerm(tableName, atom[1]) /\ atom[2] = kw("IS") /\ atom[3] = kw("NOT")
     /\ atom[4] = kw("NULL")

\* the value of a term in row r
TermValue(r, tok) ==
  IF tok.k # "word" THEN tok
  ELSE IF r[tok.v[1]] = NULL THEN [k |-> "null", v |-> <<>>]
  ELSE [k |-> "num", v |-> <<Digits[r[tok.v[1]] + 1]>>]

IsNumeric(text) == text # <<>> /\ \A i \in DOMAIN text : IsDigit(text[i])

\* a comparison is true in row r (a comparison with NULL is not)
AtomHolds(r, atom) ==
  LET a == TermValue(r, atom[1])
      b == TermValue(r, atom[Len(atom)])
  IN CASE atom[2] = kw("IS") -> IF Len(atom) = 3 THEN a.k = "null" ELSE a.k # "null"
       [] atom[2] = kw("=") -> a.k # "null" /\ b.k # "null" /\ a.v = b.v
       [] atom[2] = kw("LIKE") -> a.k # "null" /\ b.k # "null" /\ Like(a.v, b.v)
       [] atom[2] = kw(">") ->
            /\ a.k # "null" /\ b.k # "null"
            /\ IF IsNumeric(a.v) /\ IsNumeric(b.v) THEN DigitsVal(a.v) > DigitsVal(b.v)
               ELSE ~IsNumeric(a.v) /\ (IsNumeric(b.v) \/ NameLess(b.v, a.v))
       [] atom[2] = kw("<") ->
            /\ a.k # "null" /\ b.k # "null"
            /\ IF IsNumeric(a.v) /\ IsNumeric(b.v) THEN DigitsVal(a.v) < DigitsVal(b.v)
               ELSE ~IsNumeric(b.v) /\ (IsNumeric(a.v) \/ NameLess(a.v, b.v))

\* the clause as the engine parses it: the alternatives of its ORs, each the
\* comparisons of its ANDs
Alternatives(clause) ==
  LET ors == Split(Lex(clause), kw("OR"))
  IN [i \in DOMAIN ors |-> Split(ors[i], kw("AND"))]

\* SELECT * FROM t WHERE <clause> with the clause spliced into the text
\* (sqlite.go:215-221): an error, or the rows the clause selects
QueryWhere(d, tableName, clause) ==
  LET alts == Alternatives(clause)
  IN IF \E i \in DOMAIN alts : \E j \in DOMAIN alts[i] : ~WellFormed(tableName, alts[i][j])
     THEN [err |-> <<"failed to get total row count: ">>, rows |-> {}]
     ELSE [err |-> Nil,
           rows |-> {r \in d[tableName] :
                       \E i \in DOMAIN alts : \A j \in DOMAIN alts[i] :
                          AtomHolds(r, alts[i][j])}]

\* the filters a column can be given, in the filter row or in the URL
FilterValues ==
  {sNull, sNumber(1), sNumber(2), sString(<<>>), sString(<<"1">>), sString(<<"2">>),
   sString(<<"'">>), sString(<<"1", " ", "OR", " ", "1", "=", "1">>)}

ColumnFilters(columnName) ==
  {[columnName |-> columnName, operator |-> o, value |-> v] :
     o \in {"contains", "equals", "greater", "less"}, v \in FilterValues}
  \cup {[columnName |-> columnName, operator |-> o, value |-> sNull] :
          o \in {"null", "not_null", "true", "false"}}

\* the view of table users, no filter set
InitFilter ==
  /\ db = [users |-> {[id |-> 1, email |-> 1, age |-> 1],
                      [id |-> 2, email |-> 2, age |-> NULL]},
           slots |-> SlotsFixture]
  /\ http = [op |-> "filter", filters |-> <<>>, whereClause |-> <<>>,
             error |-> Nil, rows |-> {}, loads |-> 0]

\* loadTableData with the filters given: the rows of the answer
LoadFiltered(filters) ==
  LET whereClause == FilterWhereClause(filters)
      res == IF whereClause = <<>> THEN [err |-> Nil, rows |-> db["users"]]
             ELSE QueryWhere(db, "users", whereClause)
  IN /\ http' = [op |-> "filter", filters |-> filters, whereClause |-> whereClause,
                 error |-> res.err, rows |-> res.rows, loads |-> 1]
     /\ UNCHANGED db

\* handleFilterChange: the filter of the column is replaced in place, added
\* after the others, or removed; the effect then loads the table
FilterChange ==
  /\ http.op = "filter"
  /\ \E columnName \in {"email", "age"} :
       LET at == {i \in DOMAIN http.filters : http.filters[i].columnName = columnName}
       IN \/ \E filter \in ColumnFilters(columnName) :
               LoadFiltered(IF at = {} THEN Append(http.filters, filter)
                            ELSE [i \in DOMAIN http.filters |->
                                    IF i \in at THEN filter ELSE http.filters[i]])
          \/ /\ at # {}
             /\ LoadFiltered(SelectSeq(http.filters, LAMBDA f : f.columnName # columnName))

\* handleClearAllFilters
ClearAllFilters ==
  /\ http.op = "filter"
  /\ http.filters # <<>>
  /\ LoadFiltered(<<>>)

\* the effect that reads the URL when the view is mounted: every
\* filter_<column> parameter whose JSON holds a filterType and an operator
\* becomes the filter of the column, its value as it is (part_001:439-466)
LoadFiltersFromUrl ==
  /\ http.op = "filter"
  /\ http.loads = 0
  /\ \E first \in ColumnFilters("email") \cup ColumnFilters("age") :
       \/ LoadFiltered(<<first>>)
       \/ \E second \in ColumnFilters("email") \cup ColumnFilters("age") :
            /\ second.columnName # first.columnName
            /\ LoadFiltered(<<first, second>>)

NextFilter == FilterChange \/ ClearAllFilters \/ LoadFiltersFromUrl

SpecFilter == InitFilter /\ [][NextFilter]_vars

----------------------------------------------------------------------------
(* web/src/components/TableView.tsx mounted by TablePage (App.tsx): the    *)
(* state of sorting, paging and unsaved cell changes.  The reload effect   *)
(* calls loadTableData whenever the sort, the page, the page size or the   *)
(* filters change; its answer clears the pending changes.  A pending       *)
(* change is the key of its cell, <<rowIndex, columnName>>.  sortColumn "" *)
(* stands for null.                                                        *)

MaxPage == 2

ViewColumns == {"email", "age"}

Cells == (1..MaxPage) \X {"age"}

\* what the URL can hold as direction: it is cast, not checked
UrlDirections == {sAsc, sDesc, <<"u", "p">>}

\* the table is rendered: not while loading, not after a failed load, and
\* not behind the confirmation dialog (part_001:998-1012)
Interactive(h) == h.op = "view" /\ ~h.loading /\ ~h.error /\ ~h.confirmOpen

View(h, event, arg) == [h EXCEPT !.event = event, !.arg = arg]

\* the effect of part_001:407-409 has called loadTableData
Reloading(h, cause) == [h EXCEPT !.loading = TRUE, !.cause = cause]

InitView ==
  /\ db = [users |-> {}, slots |-> SlotsFixture]
  /\ http = [op |-> "view", sortColumn |-> "", sortDirection |-> sAsc,
             currentPage |-> 1, pageSize |-> 10, filtered |-> FALSE,
             pendingChanges |-> {}, loading |-> TRUE, error |-> FALSE, cause |-> "mount",
             confirmOpen |-> FALSE, reloads |-> 0, event |-> "mount", arg |-> ""]

\* the URL effect at mount: sort and direction are taken when both are given
LoadSortFromUrl ==
  /\ http.op = "view" /\ http.event = "mount"
  /\ \E urlSortColumn \in ViewColumns, urlSortDirection \in UrlDirections :
       http' = View(Reloading([http EXCEPT !.sortColumn = urlSortColumn,
                                           !.sortDirection = urlSortDirection], "url"),
                    "url", urlSortColumn)
  /\ UNCHANGED db

\* the next sort state of handleSort
SortAlwaysAscending(sortColumn, sortDirection, columnName) ==
  [sortColumn |-> columnName, sortDirection |-> sAsc]

handleSort(sortColumn, sortDirection, columnName) ==
  IF sortColumn = columnName
  THEN IF sortDirection = sAsc
       THEN [sortColumn |-> sortColumn, sortDirection |-> sDesc]
       ELSE IF sortDirection = sDesc
       THEN [sortColumn |-> "", sortDirection |-> sAsc]
       ELSE [sortColumn |-> sortColumn, sortDirection |-> sortDirection]
  ELSE [sortColumn |-> columnName, sortDirection |-> sAsc]

\* a click on a column header
SortClick ==
  /\ Interactive(http)
  /\ \E columnName \in ViewColumns :
       LET next == handleSort(http.sortColumn, http.sortDirection, columnName)
           h == [http EXCEPT !.sortColumn = next.sortColumn,
                             !.sortDirection = next.sortDirection]
       IN http' = View(IF next.sortColumn # http.sortColumn
                          \/ next.sortDirection # http.sortDirection
                       THEN Reloading(h, "sort") ELSE h, "sort", columnName)
  /\ UNCHANGED db

\* handlePageChange
PageChange ==
  /\ Interactive(http)
  /\ \E page \in (1..MaxPage) \ {http.currentPage} :
       http' = View(Reloading([http EXCEPT !.currentPage = page], "page"), "page", "")
  /\ UNCHANGED db

\* handlePageSizeChange
PageSizeChange ==
  /\ Interactive(http)
  /\ \E newPageSize \in {10, 25} \ {http.pageSize} :
       http' = View(Reloading([http EXCEPT !.pageSize = newPageSize, !.currentPage = 1],
                              "pageSize"), "pageSize", "")
  /\ UNCHANGED db

\* handleFilterChange / handleClearAllFilters: the filters change
FiltersChange ==
  /\ Interactive(http)
  /\ http' = View(Reloading([http EXCEPT !.filtered = ~@, !.currentPage = 1], "filter"),
                  "filter", "")
  /\ UNCHANGED db

\* handleCellEdit: the new value differs from the original one, or not
CellEdit ==
  /\ Interactive(http)
  /\ \E cell \in Cells :
       \/ http' = View([http EXCEPT !.pendingChanges = @ \cup {cell}], "edit", "")
       \/ /\ cell \in http.pendingChanges
          /\ http' = View([http EXCEPT !.pendingChanges = @ \ {cell}], "editBack", "")
  /\ UNCHANGED db

\* handleRevertCellChange, handleRevertRowChanges
Revert ==
  /\ Interactive(http)
  /\ \E cell \in http.pendingChanges :
       http' = View([http EXCEPT !.pendingChanges = @ \ {cell}], "revert", "")
  /\ UNCHANGED db

\* the Refresh button: a confirmation when changes are pending
RefreshClick ==
  /\ Interactive(http)
  /\ http' = IF http.pendingChanges # {}
             THEN View([http EXCEPT !.confirmOpen = TRUE], "refresh", "")
             ELSE View(Reloading(http, "refresh"), "refresh", "")
  /\ UNCHANGED db

\* the confirmation dialog: onConfirm calls loadTableData, onCancel closes
ConfirmAnswer ==
  /\ http.op = "view" /\ http.confirmOpen
  /\ \/ http' = View(Reloading([http EXCEPT !.confirmOpen = FALSE], "confirmed"),
                     "confirm", "")
     \/ http' = View([http EXCEPT !.confirmOpen = FALSE], "cancel", "")
  /\ UNCHANGED db

\* the answer to loadTableData arrives: the data, and the pending changes
\* are cleared; or an error, which the server gives for a direction that is
\* neither asc nor desc (handlers.go:83)
Loaded ==
  /\ http.op = "view" /\ http.loading
  /\ \/ /\ http.sortColumn = "" \/ ~InvalidSortDirection(http.sortDirection)
        /\ http' = View([http EXCEPT !.pendingChanges = {}, !.loading = FALSE,
                                     !.error = FALSE], "loaded", "")
     \/ http' = View([http EXCEPT !.loading = FALSE, !.error = TRUE], "loadFailed", "")
  /\ UNCHANGED db

NextView ==
  \/ LoadSortFromUrl \/ SortClick \/ PageChange \/ PageSizeChange \/ FiltersChange
  \/ CellEdit \/ Revert \/ RefreshClick \/ ConfirmAnswer \/ Loaded

SpecView == InitView /\ [][NextView]_vars

----------------------------------------------------------------------------
(* internal/db/sqlite.go: the texts and the bound values of InsertRow,     *)
(* UpdateRow and DeleteRow, position by position.  A range over a Go map   *)
(* visits its keys in an order the language leaves open: any order of the  *)
(* keys.  A text is its tokens: a keyword, a name, or a placeholder.       *)

tKw(w) == [k |-> "kw", v |-> w]

tName(n) == [k |-> "name", v |-> n]

tPlaceholder == [k |-> "?", v |-> "?"]

\* the orders a range over map m can take
RangeOrders(m) == Perms(DOMAIN m)

\* the values of the map in the order of its keys, whatever the range took
ValuesInKeyOrder(m, order) ==
  LET sorted == CHOOSE p \in Perms(DOMAIN m) : TRUE
  IN [i \in DOMAIN sorted |-> m[sorted[i]]]

\* values = append(values, val), once per turn of the range
AppendedValues(m, order) == [i \in DOMAIN order |-> m[order[i]]]

\* strings.Join of the parts "col = ?" with sep
EqualsParts(order, sep) ==
  Join([i \in DOMAIN order |-> <<tName(order[i]), tKw("="), tPlaceholder>>], <<tKw(sep)>>)

\* InsertRow: the query and the values handed to db.Exec (sqlite.go:298-313)
InsertQuery(tableName, data, order) ==
  [text |-> <<tKw("INSERT INTO"), tName(tableName), tKw("(")>>
            \o Join([i \in DOMAIN order |-> <<tName(order[i])>>], <<tKw(",")>>)
            \o <<tKw(") VALUES (")>>
            \o Join([i \in DOMAIN order |-> <<tPlaceholder>>], <<tKw(",")>>)
            \o <<tKw(")")>>,
   columns |-> order,
   values |-> AppendedValues(data, order)]

\* UpdateRow: SET parts first, then WHERE parts (sqlite.go:329-348)
UpdateQuery(tableName, data, where, order, whereOrder) ==
  [text |-> <<tKw("UPDATE"), tName(tableName), tKw("SET")>> \o EqualsParts(order, ",")
            \o <<tKw("WHERE")>> \o EqualsParts(whereOrder, "AND"),
   columns |-> order \o whereOrder,
   values |-> AppendedValues(data, order) \o AppendedValues(where, whereOrder)]

\* DeleteRow (sqlite.go:361-373)
DeleteQuery(tableName, where, whereOrder) ==
  [text |-> <<tKw("DELETE FROM"), tName(tableName), tKw("WHERE")>>
            \o EqualsParts(whereOrder, "AND"),
   columns |-> whereOrder,
   values |-> AppendedValues(where, whereOrder)]

NoQuery == [text |-> <<>>, columns |-> <<>>, values |-> <<>>]

\* a call of one of the three operations, its maps given
InitBuild ==
  /\ db = [users |-> {}, slots |-> SlotsFixture]
  /\ \E kind \in {"insert", "update", "delete"} :
     \E data \in Maps(ColumnNames("users"), MaxMapSize),
        where \in Maps(ColumnNames("users"), MaxMapSize) :
       /\ kind = "insert" => where = <<>>
       /\ kind = "delete" => data = <<>>
       /\ http = [op |-> "build", kind |-> kind, data |-> data, where |-> where,
                  built |-> FALSE, err |-> Nil, query |-> NoQuery]

\* the operation builds its statement, or refuses an empty map
BuildQuery ==
  /\ http.op = "build" /\ ~http.built
  /\ \E order \in RangeOrders(http.data), whereOrder \in RangeOrders(http.where) :
       http' = [http EXCEPT
         !.built = TRUE,
         !.err = IF http.kind # "delete" /\ EmptyMap(http.data) THEN <<"no data provided">>
                 ELSE IF http.kind # "insert" /\ EmptyMap(http.where)
                 THEN <<"no where clause provided">>
                 ELSE Nil,
         !.query = IF (http.kind # "delete" /\ EmptyMap(http.data))
                      \/ (http.kind # "insert" /\ EmptyMap(http.where))
                   THEN NoQuery
                   ELSE CASE http.kind = "insert" -> InsertQuery("users", http.data, order)
                          [] http.kind = "update" ->
                               UpdateQuery("users", http.data, http.where, order, whereOrder)
                          [] http.kind = "delete" ->
                               DeleteQuery("users", http.where, whereOrder)]
  /\ UNCHANGED db

NextBuild == BuildQuery

SpecBuild == InitBuild /\ [][NextBuild]_vars

----------------------------------------------------------------------------
(* web/src/components/TableView.tsx mounted by TablePage (App.tsx):        *)
(* handleSaveChanges and handleSaveAllChanges.  TablePage passes as        *)
(* onRefresh a function that calls window.location.reload(): the page is   *)
(* loaded anew and the state of the view starts over.  A request in flight *)
(* remembers the page load that sent it; the server serves it whether or   *)
(* not that page is still there.                                           *)

MaxReloads == 2

MaxFlight == 2

\* the changes a cell can be given
Changes ==
  {[rowIndex |-> i, columnName |-> "email", newValue |-> v] : i \in 1..2, v \in {1, 2}}
  \cup {[rowIndex |-> i, columnName |-> "age", newValue |-> 2] : i \in 1..2}

NoBatch == [active |-> FALSE, left |-> 0, failed |-> FALSE]

\* the view after the page is loaded: the rows of the table, nothing pending
Mounted(d, pageLoads, flight, errors) ==
  [op |-> "save", rows |-> Scan(d["users"]), pendingChanges |-> {}, editingCell |-> <<>>,
   flight |-> flight, all |-> NoBatch, errors |-> errors, pageLoads |-> pageLoads,
   event |-> "mount", arg |-> 0]

InitSave ==
  /\ db = [users |-> {[id |-> 1, email |-> 1, age |-> 1],
                      [id |-> 2, email |-> 2, age |-> NULL]},
           slots |-> SlotsFixture]
  /\ http = Mounted(db, 0, {}, FALSE)

\* the update request of one row: the new values of its changes, and its
\* primary key as where map (part_001:651-664, 719-731)
RowRequest(h, rowIndex, batch) ==
  LET rowChanges == {c \in h.pendingChanges : c.rowIndex = rowIndex}
  IN [rowIndex |-> rowIndex, batch |-> batch, page |-> h.pageLoads,
      data |-> [col \in {c.columnName : c \in rowChanges} |->
                  (CHOOSE c \in rowChanges : c.columnName = col).newValue],
      where |-> [col \in PrimaryKeyColumns("users") |-> h.rows[rowIndex][col]]]

\* one request per pending change
SaveAllRequestsPerChange(h) ==
  {[RowRequest(h, c.rowIndex, "all") EXCEPT !.data = [col \in {c.columnName} |-> c.newValue]] :
     c \in h.pendingChanges}

\* changesByRow and the promises of handleSaveAllChanges: one request per row
SaveAllRequests(h) ==
  {RowRequest(h, i, "all") : i \in {c.rowIndex : c \in h.pendingChanges}}

\* handleCellDoubleClick
CellDoubleClick ==
  /\ http.op = "save"
  /\ \E i \in 1..2, col \in {"email", "age"} :
       /\ http.editingCell # <<i, col>>
       /\ http' = [http EXCEPT !.editingCell = <<i, col>>, !.event = "open", !.arg = i]
  /\ UNCHANGED db

\* handleCellEdit of the cell being edited: a change is recorded, or dropped
\* when the value is the original one
SaveCellEdit ==
  /\ http.op = "save" /\ http.editingCell # <<>>
  /\ \E c \in Changes :
       /\ <<c.rowIndex, c.columnName>> = http.editingCell
       /\ LET others == {x \in http.pendingChanges :
                           <<x.rowIndex, x.columnName>> # http.editingCell}
          IN http' = [http EXCEPT
               !.pendingChanges = IF c.newValue # http.rows[c.rowIndex][c.columnName]
                                  THEN others \cup {c} ELSE others,
               !.editingCell = <<>>, !.event = "edit", !.arg = c.rowIndex]
  /\ UNCHANGED db

\* handleSaveChanges up to its await: the request of the row is sent
SaveChanges ==
  /\ http.op = "save" /\ http.pageLoads < MaxReloads
  /\ Cardinality(http.flight) < MaxFlight
  /\ \E i \in {c.rowIndex : c \in http.pendingChanges} :
       /\ RowRequest(http, i, "row") \notin http.flight
       /\ http' = [http EXCEPT !.flight = @ \cup {RowRequest(http, i, "row")},
                               !.event = "save", !.arg = i]
  /\ UNCHANGED db

\* handleSaveAllChanges up to its await Promise.all: every request is sent
SaveAllChanges ==
  /\ http.op = "save" /\ http.pageLoads < MaxReloads
  /\ ~http.all.active
  /\ http.pendingChanges # {}
  /\ \A r \in http.flight : r.batch # "all"
  /\ Cardinality(http.flight \cup SaveAllRequests(http)) <= MaxFlight
  /\ http' = [http EXCEPT
       !.flight = @ \cup SaveAllRequests(http),
       !.all = [active |-> TRUE, left |-> Cardinality(SaveAllRequests(http)),
                failed |-> FALSE],
       !.event = "saveAll", !.arg = 0]
  /\ UNCHANGED db

\* the answers of the server to an update request: Handler.UpdateRow's, or
\* none when the connection fails
UpdateAnswers(d, req) ==
  {[failed |-> res.err # Nil, db |-> res.db] : res \in UpdateRow(d, "users", req.data, req.where)}
  \cup {[failed |-> TRUE, db |-> d]}

\* the rest of handleSaveChanges after its await (part_001:666-699)
AfterSaveChanges(h, d, req, failed) ==
  IF failed
  THEN [h EXCEPT !.errors = TRUE, !.event = "saveFailed", !.arg = req.rowIndex]
  ELSE [Mounted(d, h.pageLoads + 1, h.flight, h.errors)
          EXCEPT !.event = "saved", !.arg = req.rowIndex]

\* the rest of handleSaveAllChanges: Promise.all rejects at the first
\* failure and resolves after the last success (part_001:733-743)
AfterSaveAll(h, d, req, failed) ==
  IF ~h.all.active THEN [h EXCEPT !.event = "late", !.arg = req.rowIndex]
  ELSE IF failed
  THEN [h EXCEPT !.all.left = @ - 1, !.all.failed = TRUE,
                 !.errors = TRUE,
                 !.event = "allFailed", !.arg = req.rowIndex]
  ELSE IF h.all.left > 1 \/ h.all.failed
  THEN [h EXCEPT !.all.left = @ - 1, !.event = "allOk", !.arg = req.rowIndex]
  ELSE [Mounted(d, h.pageLoads + 1, h.flight, h.errors)
          EXCEPT !.event = "allDone", !.arg = req.rowIndex]

\* the server serves a request in flight and the page that sent it, if it
\* is still there, goes on
UpdateAnswered ==
  /\ http.op = "save"
  /\ \E req \in http.flight : \E ans \in UpdateAnswers(db, req) :
       LET h == [http EXCEPT !.flight = @ \ {req}]
       IN /\ db' = ans.db
          /\ http' = IF req.page # http.pageLoads
                     THEN [h EXCEPT !.event = "orphan", !.arg = req.rowIndex]
                     ELSE IF req.batch = "row"
                     THEN AfterSaveChanges(h, ans.db, req, ans.failed)
                     ELSE AfterSaveAll(h, ans.db, req, ans.failed)

NextSave ==
  CellDoubleClick \/ SaveCellEdit \/ SaveChanges \/ SaveAllChanges \/ UpdateAnswered

SpecSave == InitSave /\ [][NextSave]_vars

----------------------------------------------------------------------------
(* GetTableData while other requests write: the count query and the page   *)
(* query are two statements sent to the pool one after the other, outside  *)
(* any transaction, so statements of other requests can run between them.  *)

MaxLimit == 2

\* rows other requests insert into users
OtherInserts == {[email |-> 1], [email |-> 2], [email |-> 2, age |-> 1]}

InitRead ==
  /\ db = ConcurrentStart
  /\ http = [op |-> "read", pc |-> "idle", limit |-> 0, offset |-> 0,
             total |-> 0, rows |-> <<>>]

\* GetTableData up to the count query (sqlite.go:208-227)
ReadCount ==
  /\ http.op = "read" /\ http.pc # "counted"
  /\ \E limit \in 0..MaxLimit, offset \in 0..1 :
       LET cnt == EngineCount(db, CountQuery("users", EmptyClause))
       IN /\ cnt.err = Nil
          /\ http' = [http EXCEPT !.pc = "counted", !.limit = limit, !.offset = offset,
                                  !.total = cnt.n, !.rows = <<>>]
  /\ UNCHANGED db

\* GetTableData from the page query to the answer (sqlite.go:245-291)
ReadPage ==
  /\ http.op = "read" /\ http.pc = "counted"
  /\ \E res \in EngineSelect(db, [BaseQuery("users", EmptyClause) EXCEPT
                                    !.limit = http.limit, !.offset = http.offset]) :
       /\ res.err = Nil
       /\ http' = [http EXCEPT !.pc = "answered",
                     !.rows = [i \in DOMAIN res.rows |-> ScanRow(res.rows[i])]]
  /\ UNCHANGED db

\* another request inserts a row
OtherInsert ==
  /\ http.op = "read"
  /\ \E data \in OtherInserts : \E res \in InsertRow(db, "users", data) :
       /\ res.err = Nil
       /\ \A r \in res.db["users"] : r["id"] \in Ids
       /\ db' = res.db
  /\ UNCHANGED http

\* another request deletes a row
OtherDelete ==
  /\ http.op = "read"
  /\ \E r \in db["users"] : \E res \in DeleteRow(db, "users", [id |-> r["id"]]) :
       /\ res.err = Nil
       /\ db' = res.db
  /\ UNCHANGED http

NextRead == ReadCount \/ ReadPage \/ OtherInsert \/ OtherDelete

SpecRead == InitRead /\ [][NextRead]_vars

----------------------------------------------------------------------------
(* web/src/components/SqlEditor.tsx mounted by SqlEditorPage: executeQuery *)
(* from the Run button, which is disabled while isExecuting, and from the  *)
(* Ctrl/Cmd+Enter binding, which calls executeQuery as it is.  A request   *)
(* is numbered by the order in which it was started; results and error     *)
(* hold the number of the request they came from, NULL for null.           *)

MaxQueries == 3

\* the text of the editor as executeQuery looks at it: blank, a query that
\* only reads, a query the pattern CREATE|DROP|ALTER|INSERT|UPDATE|DELETE finds
EditorTexts == {"blank", "reads", "writes"}

\* the editor after the page is loaded
EditorMounted(started) ==
  [op |-> "editor", sql |-> "reads", isExecuting |-> FALSE, results |-> NULL,
   error |-> NULL, flight |-> {}, started |-> started]

InitEditor ==
  /\ db = ConcurrentStart
  /\ http = EditorMounted(0)

\* onChange of the editor
SqlChange ==
  /\ http.op = "editor"
  /\ \E text \in EditorTexts \ {http.sql} : http' = [http EXCEPT !.sql = text]
  /\ UNCHANGED db

\* executeQuery up to its await fetch
executeQuery(h) ==
  [h EXCEPT !.isExecuting = TRUE, !.error = NULL, !.results = NULL,
            !.started = @ + 1,
            !.flight = @ \cup {[id |-> h.started + 1, sql |-> h.sql]}]

\* the Run Query button: disabled={isExecuting || !sql.trim()}
RunClick ==
  /\ http.op = "editor" /\ http.started < MaxQueries
  /\ ~http.isExecuting /\ http.sql # "blank"
  /\ http' = executeQuery(http)
  /\ UNCHANGED db

\* Ctrl/Cmd+Enter in the editor; executeQuery returns at once on blank text
RunKey ==
  /\ http.op = "editor" /\ http.started < MaxQueries
  /\ http.sql # "blank"
  /\ http' = executeQuery(http)
  /\ UNCHANGED db

\* the answer of a request arrives: results on success, and the page is
\* loaded anew by onRefresh when the text that was sent matches the
\* pattern; error on failure; isExecuting false either way
QueryAnswered ==
  /\ http.op = "editor"
  /\ \E req \in http.flight : \E ok \in BOOLEAN :
       LET h == [http EXCEPT !.flight = @ \ {req}, !.isExecuting = FALSE]
       IN http' = IF ~ok THEN [h EXCEPT !.error = req.id]
                  ELSE IF req.sql = "writes" THEN EditorMounted(http.started)
                  ELSE [h EXCEPT !.results = req.id]
  /\ UNCHANGED db

NextEditor == SqlChange \/ RunClick \/ RunKey \/ QueryAnswered

SpecEditor == InitEditor /\ [][NextEditor]_vars

----------------------------------------------------------------------------
(* Properties of the status codes *)

----------------------------------------------------------------------------
(* Properties of requests served at the same time *)

\* the statements the engine accepted: <<client, position in its request>>
AcceptedStatements(flight) ==
  UNION {{<<c, k>> : k \in 1..flight[c].pc} : c \in Clients}

\* all the statements of the requests answered with success
StatementsOfSucceeded(flight) ==
  UNION {{<<c, k>> : k \in 1..StatementCount(flight[c].req)} :
           c \in {o \in Clients : flight[o].status \in {StatusOK, StatusCreated}}}

RECURSIVE SerialOutcomes(_, _, _)
\* the databases some serial order of the statements S leads to from d,
\* every statement succeeding, each request's statements in their order
SerialOutcomes(d, flight, S) ==
  IF S = {} THEN {d}
  ELSE UNION {UNION {SerialOutcomes(res.db, flight, S \ {x}) :
                       res \in {o \in StatementOutcomes(d, flight[x[1]].req, x[2]) :
                                  o.err = Nil}} :
                x \in {y \in S : \A z \in S : z[1] = y[1] => z[2] >= y[2]}}

\* two clients inserted the same value of a unique column, both with success
BothInserted(flight) ==
  \E c1, c2 \in Clients :
    /\ c1 # c2
    /\ flight[c1].req.kind = "insert" /\ flight[c2].req.kind = "insert"
    /\ flight[c1].req.data = flight[c2].req.data
    /\ flight[c1].status = StatusCreated /\ flight[c2].status = StatusCreated

----------------------------------------------------------------------------
(* Properties of the bulk delete of the table view *)

\* the row of the page the j-th selected index names
SelectedRow(j) == http.rows[http.todo[j]]

\* C18: the bulk delete of k selected rows of a table with a primary key
\* sends its DELETE requests one at a time in selection order, each on the
\* primary key of one row; when the i-th fails, the rows of requests
\* 1..i-1 are deleted, no request after the i-th is sent, the rows after it
\* are still there, and one failure is shown; when none fails, k requests
\* were sent and the k rows are gone.
C18_BulkDeletePartial ==
  /\ [](http.op = "bulk"
        => /\ Len(http.sent) <= Len(http.todo)
           /\ \A j \in DOMAIN http.sent : http.sent[j] = [id |-> SelectedRow(j)["id"]]
           /\ \A j \in DOMAIN http.todo :
                /\ j < Len(http.sent) => SelectedRow(j) \notin db[http.table]
                /\ j > Len(http.sent) => SelectedRow(j) \in db[http.table]
           /\ http.phase = "failed"
              => /\ Len(http.sent) >= 1
                 /\ http.errors = <<<<"Failed to Delete Rows">>>>
                 /\ http.reloads = 0
           /\ http.phase = "done"
              => /\ Len(http.sent) = Len(http.todo)
                 /\ \A j \in DOMAIN http.todo : SelectedRow(j) \notin db[http.table]
                 /\ http.errors = <<>>
           /\ http.phase = "deleting" => http.errors = <<>>)
  /\ [][http.op = "bulk"
        => /\ Len(http'.sent) <= Len(http.sent) + 1
           /\ http.phase \in {"failed", "done"} => http'.sent = http.sent
           /\ db' # db => Len(http'.sent) = Len(http.sent) + 1]_vars

\* three rows selected, the last first; the second request failed: the
\* first row is deleted, the third request was never sent
C18_Witness ==
  /\ http.op = "bulk" /\ http.phase = "failed"
  /\ http.todo = <<3, 1, 2>>
  /\ Len(http.sent) = 2
  /\ BulkPage[3] \notin db["slots"]
  /\ BulkPage[1] \in db["slots"] /\ BulkPage[2] \in db["slots"]

----------------------------------------------------------------------------
(* Properties of the process *)

\* C19: the database handle is opened once, before the server listens, is
\* the one handle every request is served with and is never opened again,
\* and it is closed on every path by which the process ends after the
\* handle was opened, the failure of the listener to bind included.
C19_HandleClosedOnExit ==
  http.op = "main"
  => /\ http.opens <= 1
     /\ (http.listening \/ http.served > 0) => (http.opens = 1 /\ http.handle = "open")
     /\ (http.pc = "exited" /\ http.opens = 1)
        => (http.closes = 1 /\ http.handle = "closed")

----------------------------------------------------------------------------
(* Properties of the router fallback *)

\* the path is /api or lies under /api/
IsApiPath(path) == path = pApi \/ HasPrefix(path, pApi \o pRoot)

\* the path is an asset path: /assets..., /vite.svg, /database.svg
IsAssetPath(path) == HasPrefix(path, pAssets) \/ path \in {pViteSvg, pDatabaseSvg}

\* C20: a request whose path matches no registered route is answered by the
\* fallback: 404 when the path is /api or lies under /api/, 404 when it is
\* an asset path (/assets..., /vite.svg, /database.svg), and the SPA entry
\* document index.html for every other path.
C20_Fallback ==
  (http.op = "route" /\ http.handler = "NoRoute" /\ http.dist)
  => IF IsApiPath(http.path) \/ IsAssetPath(http.path)
     THEN http.status = StatusNotFound /\ http.body = ""
     ELSE http.status = StatusOK /\ http.body = "index.html"

----------------------------------------------------------------------------
(* Properties of the filters of the table view *)

\* the rows of users that satisfy the condition of one filter alone
SatisfyFilter(filter) ==
  IF Conditions(filter) = <<>> THEN db["users"]
  ELSE QueryWhere(db, "users", Conditions(filter)[1]).rows

\* the value of the filter is a number or the text of one, or not used
PlainValue(filter) == ~HasValue(filter) \/ IsNumeric(filter.value.text)

\* C21: with filters set on several columns the where clause selects
\* exactly the rows that satisfy every one of the column filters, for every
\* combination of operators.
C21_FiltersAreConjoined ==
  (/\ http.op = "filter" /\ http.loads > 0 /\ http.error = Nil
   /\ \A i \in DOMAIN http.filters : PlainValue(http.filters[i]))
  => http.rows = {r \in db["users"] :
                    \A i \in DOMAIN http.filters : r \in SatisfyFilter(http.filters[i])}

\* the operators whose condition holds the value of the filter
ValueOperators == {"contains", "equals", "greater", "less"}

\* the condition of the filter reads as one comparison of its column with
\* one literal: the number the value spells, or a string literal whose
\* content is the value
ValueIsOneLiteral(filter) ==
  LET toks == Lex(Conditions(filter)[1])
      text == filter.value.text
  IN /\ Len(toks) = 3
     /\ toks[1] = kw(filter.columnName)
     /\ toks[2].k = "word"
     /\ \/ toks[3] = [k |-> "num", v |-> text]
        \/ toks[3] = [k |-> "str", v |-> text]
        \/ toks[3] = [k |-> "str", v |-> <<"%">> \o text \o <<"%">>]

\* C22: every where clause built from the filter state, the state restored
\* from the URL included, holds a filter value only as a numeric literal or
\* inside a single-quoted string literal with its quotes doubled, for every
\* operator: no value adds SQL syntax to the clause.
C22_ValuesAreLiterals ==
  (http.op = "filter" /\ http.loads > 0)
  => \A i \in DOMAIN http.filters :
       (http.filters[i].operator \in ValueOperators /\ Conditions(http.filters[i]) # <<>>)
       => ValueIsOneLiteral(http.filters[i])

----------------------------------------------------------------------------
(* Properties of the table view *)

C29_PendingChangesKept ==
  [][(http.op = "view" /\ ~(http.pendingChanges \subseteq http'.pendingChanges))
     => \/ http'.event \in {"revert", "editBack"}
        \/ http'.event = "loaded" /\ http.cause = "confirmed"]_vars

----------------------------------------------------------------------------
(* Properties of the statements of the row operations *)

\* the places of the placeholders in a text
PlaceholdersOf(text) == SelectSeq(text, LAMBDA t : t = tPlaceholder)

\* the map a position of the statement takes its value from
SourceMap(i) ==
  IF http.kind = "insert" THEN http.data
  ELSE IF http.kind = "delete" THEN http.where
  ELSE IF i <= Cardinality(DOMAIN http.data) THEN http.data ELSE http.where

\* C24: in the statements InsertRow, UpdateRow and DeleteRow build, the text
\* holds keywords, names and placeholders only, as many placeholders as
\* values are bound, and the i-th value bound is the one the request maps
\* to the i-th column of the text (SET columns first, then WHERE columns),
\* whatever order the ranges over the maps take.
C24_ValuesBoundInPlace ==
  (http.op = "build" /\ http.built /\ http.err = Nil)
  => /\ \A i \in DOMAIN http.query.text : http.query.text[i].k \in {"kw", "name", "?"}
     /\ Len(PlaceholdersOf(http.query.text)) = Len(http.query.values)
     /\ Len(http.query.columns) = Len(http.query.values)
     /\ \A i \in DOMAIN http.query.values :
          http.query.values[i] = SourceMap(i)[http.query.columns[i]]
     /\ http.kind = "update"
        => /\ Range(SubSeq(http.query.columns, 1, Cardinality(DOMAIN http.data)))
                = DOMAIN http.data
           /\ Range(SubSeq(http.query.columns, Cardinality(DOMAIN http.data) + 1,
                           Len(http.query.columns))) = DOMAIN http.where
     /\ http.kind = "insert" => Range(http.query.columns) = DOMAIN http.data
     /\ http.kind = "delete" => Range(http.query.columns) = DOMAIN http.where
     /\ SelectSeq(http.query.text, LAMBDA t : t.k = "name")
          = <<tName("users")>> \o [i \in DOMAIN http.query.columns |->
                                     tName(http.query.columns[i])]

\* an update of two columns where two conditions hold, the columns of the
\* text not in the order of their names
C24_Witness ==
  /\ http.op = "build" /\ http.built /\ http.kind = "update"
  /\ http.query.columns = <<"email", "age", "id", "age">>
  /\ http.query.values = <<2, 1, 1, NULL>>

----------------------------------------------------------------------------
(* C25: in the view mounted by TablePage, a successful save of one row     *)
(* removes exactly that row's entries from pendingChanges and leaves the   *)
(* pending changes and the editing state of every other row as they were.  *)
C25_OtherRowsKept ==
  [][(http'.op = "save" /\ http'.event = "saved") =>
       /\ http'.pendingChanges = {c \in http.pendingChanges : c.rowIndex # http'.arg}
       /\ (http.editingCell # <<>> /\ http.editingCell[1] # http'.arg
             => http'.editingCell = http.editingCell)]_vars

\* the requests of the batch that the page still waits for
BatchRequests(h) == {r \in h.flight : r.batch = "all" /\ r.page = h.pageLoads}

(* C28: Save All sends one update request per changed row, all of them     *)
(* before any is answered; a failed request leaves the others in flight,   *)
(* pendingChanges whole and the table not reloaded; pendingChanges is      *)
(* cleared and the table reloaded only by the last answer of a batch in    *)
(* which no request failed.                                                *)
C28_SaveAll ==
  [][/\ (http'.op = "save" /\ http'.event = "saveAll") =>
          LET sent == http'.flight \ http.flight
              changed == {c.rowIndex : c \in http.pendingChanges}
          IN /\ {r.rowIndex : r \in sent} = changed
             /\ Cardinality(sent) = Cardinality(changed)
             /\ \A r \in sent :
                  /\ DOMAIN r.data = {c.columnName : c \in {x \in http.pendingChanges :
                                                             x.rowIndex = r.rowIndex}}
                  /\ \A c \in http.pendingChanges :
                       c.rowIndex = r.rowIndex => r.data[c.columnName] = c.newValue
             /\ BatchRequests(http) = {}
             /\ db' = db
             /\ http'.pendingChanges = http.pendingChanges
     /\ \A req \in BatchRequests(http) :
          (http.op = "save" /\ http.all.active /\ http'.flight = http.flight \ {req}) =>
             IF http'.event = "allDone"
             THEN /\ ~http.all.failed
                  /\ BatchRequests(http) = {req}
                  /\ http'.pendingChanges = {}
                  /\ http'.pageLoads = http.pageLoads + 1
             ELSE /\ http'.pendingChanges = http.pendingChanges
                  /\ http'.pageLoads = http.pageLoads
                  /\ http'.rows = http.rows
                  /\ BatchRequests(http') = BatchRequests(http) \ {req}]_vars

\* a request of the batch succeeded after another one failed, and the
\* changes of both rows are still pending
C28_Witness ==
  /\ http.op = "save" /\ http.event = "allOk" /\ http.all.failed
  /\ {c.rowIndex : c \in http.pendingChanges} = {1, 2}

(* C26: every answer of GetTableData with limit >= 0 and offset >= 0 has   *)
(* offset + len(rows) <= total, whatever other requests write meanwhile.   *)
C26_PageWithinTotal ==
  (http.op = "read" /\ http.pc = "answered")
    => http.offset + Len(http.rows) <= http.total

\* the names of a row request resolve: the table exists and has the columns
NamesResolve(req) ==
  /\ req.table \in TableNames
  /\ DOMAIN Bound(req.data) \subseteq ColumnNames(req.table)
  /\ DOMAIN Bound(req.where) \subseteq ColumnNames(req.table)

(* C27: an update or delete whose statement the engine accepts answers 200 *)
(* with the fixed message of the operation; when its where map matches no  *)
(* row (a null where value never matches) the answer is that same one and  *)
(* the tables are unchanged.                                               *)
C27_NoMatchReportsSuccess ==
  [][(/\ http'.op \in {"update", "delete"}
      /\ ~http'.req.malformed
      /\ DOMAIN Bound(http'.req.where) # {}
      /\ (http'.op = "update" => DOMAIN Bound(http'.req.data) # {})
      /\ NamesResolve(http'.req))
     => LET msg == IF http'.op = "update" THEN "row updated successfully"
                   ELSE "row deleted successfully"
            hit == {r \in db[http'.req.table] : WhereMatches(r, Bound(http'.req.where))}
        IN /\ http'.status = StatusOK => (http'.error = Nil /\ http'.body = <<msg>>)
           /\ hit = {} => (http'.status = StatusOK /\ db' = db)]_vars

\* a delete by a null value was answered 200 and the row holding null in
\* that column is still there
C27_Witness ==
  /\ http.op = "delete"
  /\ http.status = StatusOK
  /\ http.body = <<"row deleted successfully">>
  /\ \E c \in DOMAIN Bound(http.req.where) :
        /\ Bound(http.req.where)[c] = NULL
        /\ \E r \in db[http.req.table] : r[c] = NULL

(* C30: in the SQL editor at most one query request is in flight,          *)
(* isExecuting is true exactly while one is, and with none in flight at    *)
(* most one of results and error is set, and it is the outcome of the      *)
(* query started last.                                                     *)
C30_OneQueryInFlight ==
  http.op = "editor" =>
    /\ Cardinality(http.flight) <= 1
    /\ http.isExecuting <=> http.flight # {}
    /\ http.flight = {} =>
         /\ http.results = NULL \/ http.error = NULL
         /\ http.results # NULL => http.results = http.started
         /\ http.error # NULL => http.error = http.started
====
